---- MODULE Spec2Model ----
(***************************************************************************)
(* The reconciliation engine of the ScrapBook indexer: indexer.import() of *)
(* src/indexer/load.js and the helpers it calls.                           *)
(*                                                                         *)
(* Encoding.  An item identifier is a natural number (a timestamp); the    *)
(* reserved names 'root' and 'hidden' are the two numbers root and hidden, *)
(* larger than every timestamp, as the strings sort after every digit      *)
(* string.  A JavaScript object is a function whose DOMAIN is the set of   *)
(* its keys with a defined value (a key whose value is undefined is absent *)
(* from the DOMAIN, as JSON.stringify drops it), together with a sequence  *)
(* of its keys in insertion order where the code depends on that order.    *)
(* A timestamp field holds 0 for the empty string.  A path under data/ is  *)
(* the record [id, name] for `${id}${name}`.                               *)
(***************************************************************************)
EXTENDS Integers, Sequences, FiniteSets, TLC

VARIABLES
    files,        \* inputData.files: path -> file
    clock,        \* the wall clock read by scrapbook.dateToId()
    pc,           \* the stage of import() that runs next
    run,          \* 1 for the first run, 2 for a second run on the same input
    dataDirs,     \* id -> (data path -> file)
    treeFiles,    \* tree path -> file
    otherFiles,   \* TRUE iff scrapbook.rdf was recorded
    meta,         \* scrapbookData.meta
    metaKeys,     \* key order of scrapbookData.meta
    toc,          \* scrapbookData.toc
    tocKeys,      \* key order of scrapbookData.toc
    shard,        \* loop index of the shard that is read next
    queue,        \* ids whose data/* handler is still chained
    log,          \* the lines written by this.log and this.error
    trace,        \* one record per insertToToc call of the run
    net,          \* what the network answers for an icon URL
    options,      \* the options that the emit stage reads
    task,         \* id -> the favicon task of the entry
    urlAccessMap, \* icon source -> the promise of its fetch or decode
    started,      \* icon source -> how often a fetch or decode of it started
    zip,          \* the files staged for output: path -> content
    staged,       \* zip as it was when the differencer started
    emitted,      \* what the run emitted
    firstRun,     \* what the first run emitted
    usedClock,    \* the run read the clock
    host          \* the page that acquires the input and calls import()

inVars == <<files, net, options, host>>

favVars == <<task, urlAccessMap, started>>

outVars == <<zip, staged, emitted>>

runVars == <<run, firstRun>>

vars == <<files, clock, pc, run, dataDirs, treeFiles, otherFiles, meta, metaKeys,
          toc, tocKeys, shard, queue, log, trace, net, options, task, urlAccessMap,
          started, zip, staged, emitted, firstRun, usedClock, host>>

-----------------------------------------------------------------------------
(* Reserved identifiers and JavaScript object helpers *)

root == 99
hidden == 98

Has(o, k) == k \in DOMAIN o

Del(o, k) == [x \in DOMAIN o \ {k} |-> o[x]]

Put(o, k, v) == [x \in DOMAIN o \cup {k} |-> IF x = k THEN v ELSE o[x]]

\* Object.assign(o, src)
Assign(o, src) == [x \in DOMAIN o \cup DOMAIN src |-> IF x \in DOMAIN src THEN src[x] ELSE o[x]]

\* the key order after o[k] = v
KeyAdd(keys, k) == IF \E i \in 1..Len(keys) : keys[i] = k THEN keys ELSE Append(keys, k)

\* the key order after delete(o[k])
KeyDel(keys, k) == SelectSeq(keys, LAMBDA x : x # k)

Range(s) == {s[i] : i \in 1..Len(s)}

Min(S) == CHOOSE x \in S : \A y \in S : x <= y

NumFields == {"id", "create", "modify", "exported"}

\* the truthiness of m[f]
Truthy(m, f) ==
    /\ f \in DOMAIN m
    /\ IF f \in NumFields THEN m[f] # 0
       ELSE IF f = "folder" THEN m[f] # <<>>
       ELSE IF f = "index" THEN TRUE
       ELSE m[f] # ""

\* m[f] || ""
StrOr(m, f) == IF Truthy(m, f) THEN m[f] ELSE ""

\* m[f] || 0, for a timestamp field
NumOr(m, f) == IF Truthy(m, f) THEN m[f] ELSE 0

-----------------------------------------------------------------------------
(* Log lines *)

Line(sev, msg, id, ref) == [sev |-> sev, msg |-> msg, id |-> id, ref |-> ref]

LogLine(msg, id, ref) == Line("log", msg, id, ref)

ErrorLine(msg, id, ref) == Line("error", msg, id, ref)

-----------------------------------------------------------------------------
(* Collaborators of scrapbook.* that are not part of load.js *)

\* scrapbook.dateToId(date): the canonical sortable timestamp of an instant
dateToId(t) == t

\* scrapbook.idToDate(id).valueOf()
idToDate(id) == id

\* scrapbook.dateToId(scrapbook.idToDateOld(t)) of a legacy timestamp
legacyToId(t) == t

\* scrapbook.urlToFilename(url)
urlToFilename(url) ==
    CASE url = "http://h/page.html" -> "page.html"
      [] url = "http://h/" -> ""
      [] OTHER -> url

-----------------------------------------------------------------------------
(* getIndexPath, getDefaultMeta, parseIndexDat, mergeLegacyMeta *)

IndexCandidates ==
    <<"/index.html", ".html", ".htm", ".xhtml", ".xht", ".maff", ".htz", ".mht", ".epub">>

DataPath(id, name) == [id |-> id, name |-> name]

\* null
NoIndex == DataPath(0, "")

\* a probe that takes any file of the folder for the index
getIndexPathAny(itemFiles, id) ==
    IF DOMAIN itemFiles = {} THEN NoIndex ELSE CHOOSE p \in DOMAIN itemFiles : TRUE

getIndexPath(itemFiles, id) ==
    LET hits == {i \in 1..Len(IndexCandidates) :
                    DataPath(id, IndexCandidates[i]) \in DOMAIN itemFiles}
    IN  IF hits = {} THEN NoIndex ELSE DataPath(id, IndexCandidates[Min(hits)])

\* every field undefined
getDefaultMeta == <<>>

\* parseIndexDat(text): the text of an index.dat is its number of lines and the
\* key-tab-value fields its lines hold; null is NoDat
NoDat == [none |-> TRUE]

parseIndexDat(text) == IF text.lines < 2 THEN NoDat ELSE text.fields

\* the fixed table of legacy type tokens
LegacyType(t) ==
    CASE t = "note" -> "postit"
      [] t = "notex" -> "note"
      [] t = "combine" -> "site"
      [] OTHER -> t

\* the icon rewriting of mergeLegacyMeta; "resource://scrapbook/data/ID/" stands
\* for the prefix that holds the id of the legacy entry itself
LegacyIcon(icon) ==
    CASE icon = "resource://scrapbook/data/ID/favicon.ico" -> "favicon.ico"
      [] icon = "resource://scrapbook/icon/a.png" -> "../../icon/a.png"
      [] icon = "moz-icon://a" -> ""
      [] OTHER -> icon

\* the keys that Object.assign(newMeta, meta) writes, defined or not
LegacyKeys == {"id", "title", "type", "create", "modify", "source", "icon", "comment",
               "folder", "exported"}

\* meta.icon.startsWith(...) throws a TypeError when the legacy icon is missing
mergeLegacyThrows(legacyMeta) == ~Has(legacyMeta, "icon")

mergeLegacyMeta(newMeta, legacyMeta) ==
    LET type0 == LegacyType(StrOr(legacyMeta, "type"))
        m1 == [f \in {"type", "create", "modify", "icon", "comment"} |->
                 CASE f = "type" -> IF type0 = "marked" THEN "" ELSE type0
                   [] f = "create" -> IF Truthy(legacyMeta, "create")
                                      THEN legacyToId(legacyMeta.create) ELSE 0
                   [] f = "modify" -> IF Truthy(legacyMeta, "modify")
                                      THEN legacyToId(legacyMeta.modify) ELSE 0
                   [] f = "icon" -> LegacyIcon(legacyMeta.icon)
                   [] f = "comment" -> StrOr(legacyMeta, "comment")]
        copied == {f \in {"id", "title", "source", "folder"} : Has(legacyMeta, f)}
        m2 == [f \in copied |-> legacyMeta[f]]
        m3 == IF Truthy(legacyMeta, "exported")
              THEN [f \in {"exported"} |-> legacyToId(legacyMeta.exported)] ELSE <<>>
        m4 == IF type0 = "marked" THEN [f \in {"marked"} |-> TRUE] ELSE <<>>
        kept == [f \in DOMAIN newMeta \ LegacyKeys |-> newMeta[f]]
    IN  Assign(Assign(Assign(Assign(kept, m1), m2), m3), m4)

-----------------------------------------------------------------------------
(* getUniqueId, generateFolder *)

\* one increment, free or not
getUniqueIdOnce(id, metas) ==
    IF ~Has(metas, id) THEN id ELSE dateToId(idToDate(id) + 1)

RECURSIVE getUniqueId(_, _)
getUniqueId(id, metas) ==
    IF ~Has(metas, id) THEN id ELSE getUniqueId(dateToId(idToDate(id) + 1), metas)

\* a folder whose id is the clock reading, taken or not
generateFolderAtClock(title, metas, now) ==
    [id |-> dateToId(now),
     metas |-> Put(metas, dateToId(now),
                   [type |-> "folder", title |-> title, create |-> dateToId(now)])]

\* generateFolder(title, metas) at clock reading now: the new metas and the new id
generateFolder(title, metas, now) ==
    LET folderId == getUniqueId(dateToId(now), metas)
    IN  [id |-> folderId,
         metas |-> Put(metas, folderId,
                       [type |-> "folder", title |-> title, create |-> folderId])]

-----------------------------------------------------------------------------
(* import(): "Fix meta and toc", the metadata loop (lines 756-832).  A pass  *)
(* works on a record of the objects it mutates: meta and keys (the metadata  *)
(* and its key order), dirs (dataDirs), log, now (the clock), tick (how far  *)
(* the clock advances after a reading), used (the clock was read) and thrown *)
(* (an exception left the handler).                                          *)

Containers == {"folder", "separator", "bookmark"}

\* a move of the entry that leaves its data files behind
RetargetEntryOnly(st, id, newId) ==
    [st EXCEPT
       !.meta = Put(Del(st.meta, id), newId, st.meta[id]),
       !.keys = KeyAdd(KeyDel(st.keys, id), newId),
       !.log = st.log \cup {LogLine("Tweaked", id, newId)}]

\* the entry is moved to newId and its data files follow (lines 762-769)
Retarget(st, id, newId) ==
    [st EXCEPT
       !.meta = Put(Del(st.meta, id), newId, st.meta[id]),
       !.keys = KeyAdd(KeyDel(st.keys, id), newId),
       !.dirs = IF Has(st.dirs, id) THEN Put(Del(st.dirs, id), newId, st.dirs[id])
                ELSE Del(st.dirs, newId),
       !.log = st.log \cup {LogLine("Tweaked", id, newId)}]

\* "fix meta" (lines 805-831)
FixFields(st, id) ==
    LET m == st.meta[id]
        type == StrOr(m, "type")
        source == StrOr(m, "source")
        fromSource == IF source # "" THEN urlToFilename(source) ELSE ""
        title == IF Truthy(m, "title") THEN m.title
                 ELSE IF fromSource # "" THEN fromSource
                 ELSE IF type # "separator" THEN ToString(id) ELSE ""
        reads == ~Truthy(m, "modify")
        modify == IF reads THEN dateToId(st.now) ELSE m.modify
        create == IF Truthy(m, "create") THEN m.create ELSE modify
        fixed == Assign(m, [type |-> type, source |-> source, title |-> title,
                            modify |-> modify, create |-> create,
                            icon |-> StrOr(m, "icon"), comment |-> StrOr(m, "comment")])
    IN  [st EXCEPT !.meta = Put(st.meta, id, fixed),
                   !.now = IF reads THEN st.now + st.tick ELSE st.now,
                   !.used = st.used \/ reads]

\* a pass that keeps an entry whatever files it has
FixStaleKeeps(st, id) == FixFields(st, id)

\* "remove stale items", "fix missing index file" (lines 785-803), then the fields
FixStale(st, id) ==
    LET m == st.meta[id]
    IN  IF Has(m, "type") /\ m.type \in Containers THEN FixFields(st, id)
        ELSE IF ~Has(st.dirs, id)
        THEN [st EXCEPT !.meta = Del(st.meta, id),
                        !.keys = KeyDel(st.keys, id),
                        !.log = st.log \cup {ErrorLine("Missing data files", id, 0)}]
        ELSE IF Has(m, "index") /\ m.index \in DOMAIN st.dirs[id] THEN FixFields(st, id)
        ELSE LET index == getIndexPath(st.dirs[id], id)
             IN  IF index # NoIndex
                 THEN FixFields([st EXCEPT
                        !.meta = Put(st.meta, id, Put(m, "index", index)),
                        !.log = st.log \cup {ErrorLine("Shifted index", id, 0)}], id)
                 ELSE FixFields([st EXCEPT
                        !.log = st.log \cup {ErrorLine("Missing index file", id, 0)}], id)

\* one iteration of the loop over scrapbookData.meta.  The test of line 770
\* reads `index`, which no enclosing scope declares: a ReferenceError leaves
\* the handler whenever an entry already occupies the declared id.
FixEntry(st, id) ==
    LET newId == NumOr(st.meta[id], "id")
    IN  IF newId # 0 /\ newId # id
        THEN IF ~Has(st.meta, newId) THEN FixStale(Retarget(st, id, newId), newId)
             ELSE [st EXCEPT !.thrown = TRUE]
        ELSE FixStale(st, id)

\* for (let id in scrapbookData.meta): the keys present when the loop starts, in
\* key order; a key deleted before its turn is skipped
RECURSIVE FixMetaLoop(_, _)
FixMetaLoop(st, ids) ==
    IF ids = <<>> \/ st.thrown THEN st
    ELSE IF ~Has(st.meta, Head(ids)) THEN FixMetaLoop(st, Tail(ids))
    ELSE FixMetaLoop(FixEntry(st, Head(ids)), Tail(ids))

-----------------------------------------------------------------------------
(* import(): "Remove stale items from TOC" (lines 834-864).  The pass works  *)
(* on toc and tkeys (the TOC and its key order), log, referred (referredIds) *)
(* and titles (titleIdMap).                                                  *)

Reserved == {root, hidden}

\* a filter that keeps every child reference
FilterRefKeepsAll(tp, metas, id, refId) == [tp EXCEPT !.kept = Append(tp.kept, refId)]

\* the callback of filter() on one child reference (lines 846-858)
FilterRef(tp, metas, id, refId) ==
    IF ~Has(metas, refId)
    THEN [tp EXCEPT !.log = tp.log \cup {ErrorLine("Removed TOC reference", id, refId)}]
    ELSE IF refId \in Reserved
    THEN [tp EXCEPT !.log = tp.log \cup {ErrorLine("Invalid TOC reference", id, refId)}]
    ELSE [tp EXCEPT !.kept = Append(tp.kept, refId),
                    !.referred = tp.referred \cup {refId},
                    !.titles = Put(tp.titles, metas[refId].title, refId)]

\* scrapbookData.toc[id].filter(...)
RECURSIVE FilterRefs(_, _, _, _)
FilterRefs(tp, metas, id, refs) ==
    IF refs = <<>> THEN tp
    ELSE FilterRefs(FilterRef(tp, metas, id, Head(refs)), metas, id, Tail(refs))

\* a pass that keeps a key without a metadata entry as it is
PruneKeyKeepsStale(tp, metas, id) ==
    IF ~Has(metas, id) /\ id \notin Reserved THEN tp
    ELSE LET f == FilterRefs([tp EXCEPT !.kept = <<>>], metas, id, tp.toc[id])
         IN  [f EXCEPT !.toc = Put(f.toc, id, f.kept)]

\* a pass that keeps a key whose child list became empty
PruneKeyKeepsEmpty(tp, metas, id) ==
    IF ~Has(metas, id) /\ id \notin Reserved
    THEN [tp EXCEPT !.toc = Del(tp.toc, id), !.tkeys = KeyDel(tp.tkeys, id),
                    !.log = tp.log \cup {ErrorLine("Removed TOC entry", id, 0)}]
    ELSE LET f == FilterRefs([tp EXCEPT !.kept = <<>>], metas, id, tp.toc[id])
         IN  [f EXCEPT !.toc = Put(f.toc, id, f.kept)]

\* one iteration of the loop over scrapbookData.toc (lines 839-863)
PruneKey(tp, metas, id) ==
    IF ~Has(metas, id) /\ id \notin Reserved
    THEN [tp EXCEPT !.toc = Del(tp.toc, id), !.tkeys = KeyDel(tp.tkeys, id),
                    !.log = tp.log \cup {ErrorLine("Removed TOC entry", id, 0)}]
    ELSE LET f == FilterRefs([tp EXCEPT !.kept = <<>>], metas, id, tp.toc[id])
         IN  IF f.kept = <<>> /\ id \notin Reserved
             THEN [f EXCEPT !.toc = Del(f.toc, id), !.tkeys = KeyDel(f.tkeys, id),
                            !.log = f.log \cup {ErrorLine("Removed empty TOC entry", id, 0)}]
             ELSE [f EXCEPT !.toc = Put(f.toc, id, f.kept)]

RECURSIVE PruneToc(_, _, _)
PruneToc(tp, metas, ids) ==
    IF ids = <<>> THEN tp
    ELSE PruneToc(PruneKey(tp, metas, Head(ids)), metas, Tail(ids))

-----------------------------------------------------------------------------
(* import(): "Add new items to TOC" (lines 866-910) *)

\* the separator characters of the folder hint are the one token TAB
TAB == "\t"

\* String.prototype.split(/[\t\n\r\v\f]+/) of a hint given as its tokens: acc
\* holds the finished segments, cur the segment being read, sep whether the
\* last token was a separator
RECURSIVE SplitFrom(_, _, _, _)
SplitFrom(tokens, acc, cur, sep) ==
    IF tokens = <<>> THEN Append(acc, cur)
    ELSE IF Head(tokens) = TAB
    THEN IF sep THEN SplitFrom(Tail(tokens), acc, cur, TRUE)
         ELSE SplitFrom(Tail(tokens), Append(acc, cur), "", TRUE)
    ELSE SplitFrom(Tail(tokens), acc, cur \o Head(tokens), FALSE)

SplitFolder(hint) == SplitFrom(hint, <<>>, "", FALSE)

\* titleIdMap.get(folder), 0 for undefined
KnownFolder(ip, folder) == IF Has(ip.titles, folder) THEN ip.titles[folder] ELSE 0

\* metas[folderId] && toc[parentId].indexOf(folderId) !== -1 (line 879)
Reusable(ip, known) ==
    /\ known # 0
    /\ Has(ip.st.meta, known)
    /\ known \in Range(ip.toc[ip.parentId])

\* the folder g = [id, metas] was generated: it is appended to the parent and
\* recorded in titleIdMap (lines 880-883)
NewFolder(ip, folder, g) ==
    [ip EXCEPT
       !.st = [ip.st EXCEPT
                 !.meta = g.metas,
                 !.keys = KeyAdd(ip.st.keys, g.id),
                 !.now = ip.st.now + ip.st.tick,
                 !.used = TRUE,
                 !.log = ip.st.log \cup {LogLine("Generated folder", g.id, 0)}],
       !.toc = Put(ip.toc, ip.parentId, Append(ip.toc[ip.parentId], g.id)),
       !.titles = Put(ip.titles, folder, g.id),
       !.created = Append(ip.created, g.id)]

\* if (!toc[folderId]) { toc[folderId] = []; } parentId = folderId (lines 885-888)
Descend(ip, folderId) ==
    [ip EXCEPT
       !.toc = IF Has(ip.toc, folderId) THEN ip.toc ELSE Put(ip.toc, folderId, <<>>),
       !.tkeys = KeyAdd(ip.tkeys, folderId),
       !.parentId = folderId]

\* the segment with the generated folder g
InsertGenerated(ip, folder, g) == Descend(NewFolder(ip, folder, g), g.id)

\* the segment when titleIdMap holds known for its title
InsertKnown(ip, folder, known) ==
    IF Reusable(ip, known) THEN Descend(ip, known)
    ELSE InsertGenerated(ip, folder, generateFolder(folder, ip.st.meta, ip.st.now))

\* the callback of forEach() on one path segment (lines 877-889); ip carries
\* the pass record st, toc, tkeys, titles, parentId and the folders created
InsertSegment(ip, folder) == InsertKnown(ip, folder, KnownFolder(ip, folder))

RECURSIVE InsertSegments(_, _)
InsertSegments(ip, folders) ==
    IF folders = <<>> THEN ip
    ELSE InsertSegments(InsertSegment(ip, Head(folders)), Tail(folders))

\* the titles of the children of root
RootTitles(ip) == {ip.st.meta[c].title : c \in Range(ip.toc[root]) \cap DOMAIN ip.st.meta}

\* what the trace records of an insertion before it happens
Before(id, ip) ==
    [id |-> id,
     hint |-> IF Has(ip.st.meta[id], "folder") THEN ip.st.meta[id].folder ELSE <<>>,
     exported |-> NumOr(ip.st.meta[id], "exported"),
     rootTitles |-> RootTitles(ip), metas |-> DOMAIN ip.st.meta]

\* toc[parentId].push(id) (lines 872, 890) on the record w that holds the parent
PushItem(w, id, before, created) ==
    [w EXCEPT
       !.toc = Put(w.toc, w.parentId, Append(w.toc[w.parentId], id)),
       !.st = [w.st EXCEPT !.log = w.st.log \cup {LogLine("Appended", id, w.parentId)}],
       !.trace = Append(w.trace,
                        Assign(before, [created |-> created, parent |-> w.parentId,
                                        rootAfter |-> IF w.parentId = root
                                                      THEN Append(w.toc[root], id)
                                                      ELSE w.toc[root]]))]

\* the item is pushed below the folders that w has walked to
PushWalked(w, id, before) == PushItem(w, id, before, w.created)

insertToToc(id, ip) ==
    IF ~Truthy(ip.st.meta[id], "folder")
    THEN PushItem([ip EXCEPT !.parentId = root], id, Before(id, ip), <<>>)
    ELSE PushWalked(InsertSegments([ip EXCEPT !.parentId = root, !.created = <<>>],
                                   SplitFolder(ip.st.meta[id].folder)),
                    id, Before(id, ip))

\* a comparison that looks at the ids alone
TokenLessById(metas, a, b) == a < b

\* the comparison function of sort() (lines 894-900): the tokens [exported, id]
\* are compared as the strings `${exported},${id}`, an undefined hint as '';
\* hints and ids are timestamps of one width, so that the order of the strings
\* is the order of the numbers
TokenLess(metas, a, b) ==
    LET ea == NumOr(metas[a], "exported")
        eb == NumOr(metas[b], "exported")
    IN  ea < eb \/ (ea = eb /\ a < b)

RECURSIVE SortIds(_, _)
SortIds(metas, S) ==
    IF S = {} THEN <<>>
    ELSE LET first == CHOOSE a \in S : \A b \in S \ {a} : TokenLess(metas, a, b)
         IN  <<first>> \o SortIds(metas, S \ {first})

Transient == {"id", "folder", "exported"}

\* a test that takes no entry for an orphan
IsOrphanNever(ip, id) == FALSE

\* !referredIds.has(id) && id !== 'root' && id !== 'hidden' (line 901)
IsOrphan(ip, id) == id \notin ip.referred /\ id \notin Reserved

\* a loop that deletes id and folder and keeps the exported hint
StripKeepsExported(ip, id) ==
    [ip EXCEPT !.st = [ip.st EXCEPT
       !.meta = Put(ip.st.meta, id,
                    [f \in DOMAIN ip.st.meta[id] \ {"id", "folder"} |-> ip.st.meta[id][f]])]]

\* delete id, folder, exported (lines 906-909)
StripTransient(ip, id) ==
    [ip EXCEPT !.st = [ip.st EXCEPT
       !.meta = Put(ip.st.meta, id,
                    [f \in DOMAIN ip.st.meta[id] \ Transient |-> ip.st.meta[id][f]])]]

\* titleIdMap.set(scrapbookData.meta[id].title, id) (line 903)
SetTitle(w, id) == [w EXCEPT !.titles = Put(w.titles, w.st.meta[id].title, id)]

\* the body of the loop of lines 894-910 for one id
AddEntry(ip, id) ==
    IF IsOrphan(ip, id) THEN StripTransient(SetTitle(insertToToc(id, ip), id), id)
    ELSE StripTransient(ip, id)

RECURSIVE AddEntries(_, _)
AddEntries(ip, ids) ==
    IF ids = <<>> THEN ip ELSE AddEntries(AddEntry(ip, Head(ids)), Tail(ids))

-----------------------------------------------------------------------------
(* Paths and files.  A path of the input or of the output is the record      *)
(* [top, sub, id, name]: scrapbook.rdf, tree/<sub>/<name>, tree.bak/...,     *)
(* data/<id><name>.  A file is [lastModified, content].                      *)

Path(top, sub, id, name) == [top |-> top, sub |-> sub, id |-> id, name |-> name]

RdfPath == Path("scrapbook.rdf", "", 0, "")

TreePath(sub, name) == Path("tree", sub, 0, name)

\* `tree/meta${i || ""}.js`, `tree/toc${i || ""}.js`
ShardPath(base, i) ==
    TreePath("", IF i = 0 THEN base \o ".js" ELSE base \o ToString(i) \o ".js")

\* /^data\/(([^\/]+)(?:\/.+|[.][^.]+))$/: a file of data/ belongs to an item when
\* something follows the id, a path below it or an extension
IsItemFile(path) == path.top = "data" /\ path.name # ""

\* the number of shards read: the first i for which no file exists
ShardCount(base, tree) ==
    Min({i \in 0..Cardinality(DOMAIN tree) : ShardPath(base, i) \notin DOMAIN tree})

-----------------------------------------------------------------------------
(* import(): collecting the files (lines 392-426) *)

ImportStart ==
    /\ pc = "start"
    /\ LET ids == {p.id : p \in {q \in DOMAIN files : IsItemFile(q)}}
       IN  dataDirs' = [id \in ids |->
                          [d \in {DataPath(id, p.name) :
                                    p \in {q \in DOMAIN files : IsItemFile(q) /\ q.id = id}} |->
                             files[Path("data", "", id, d.name)]]]
    /\ treeFiles' = [p \in {q \in DOMAIN files : q.top = "tree"} |-> files[p]]
    /\ otherFiles' = [p \in {q \in DOMAIN files : q = RdfPath} |-> files[p]]
    /\ meta' = <<>>
    /\ metaKeys' = <<>>
    /\ toc' = (root :> <<>>)
    /\ tocKeys' = <<root>>
    /\ pc' = "rdf"
    /\ UNCHANGED <<inVars, favVars, outVars, runVars, usedClock, clock, shard, queue, log, trace>>

-----------------------------------------------------------------------------
(* import(): "Import legacy ScrapBook data" (lines 427-486).  The parsed     *)
(* scrapbook.rdf is [parses, items, seqs]: items are the Description and     *)
(* BookmarkSeparator elements [about, attrs], seqs the Seq elements          *)
(* [about, li]; about is the id of urn:scrapbook:item<id>, root for          *)
(* urn:scrapbook:root, and 0 for any other subject.                          *)

\* parseItemElem (lines 440-462) on the pass record rp = [meta, keys, toc, tkeys, thrown]
parseItemElem(rp, elem, dirs) ==
    IF elem.about = 0 \/ elem.about = root THEN rp
    ELSE LET id == IF Truthy(elem.attrs, "id") THEN elem.attrs.id ELSE elem.about
             rdfMeta == Put(elem.attrs, "id", id)
             m0 == IF Has(rp.meta, id) THEN rp.meta[id] ELSE getDefaultMeta
             index == IF Has(dirs, id) THEN getIndexPath(dirs[id], id) ELSE NoIndex
             m1 == IF index = NoIndex THEN Del(m0, "index") ELSE Put(m0, "index", index)
         IN  IF mergeLegacyThrows(rdfMeta)
             THEN [rp EXCEPT !.meta = Put(rp.meta, id, m1), !.keys = KeyAdd(rp.keys, id),
                             !.thrown = TRUE]
             ELSE [rp EXCEPT !.meta = Put(rp.meta, id, mergeLegacyMeta(m1, rdfMeta)),
                             !.keys = KeyAdd(rp.keys, id)]

RECURSIVE parseItemElems(_, _, _)
parseItemElems(rp, elems, dirs) ==
    IF elems = <<>> \/ rp.thrown THEN rp
    ELSE parseItemElems(parseItemElem(rp, Head(elems), dirs), Tail(elems), dirs)

\* parseSeqElem (lines 464-477)
parseSeqElem(rp, elem) ==
    IF elem.about = 0 THEN rp
    ELSE LET refs == SelectSeq(elem.li, LAMBDA r : r # 0 /\ r # root)
             old == IF Has(rp.toc, elem.about) THEN rp.toc[elem.about] ELSE <<>>
         IN  IF refs = <<>> THEN rp
             ELSE [rp EXCEPT !.toc = Put(rp.toc, elem.about, old \o refs),
                             !.tkeys = KeyAdd(rp.tkeys, elem.about)]

RECURSIVE parseSeqElems(_, _)
parseSeqElems(rp, elems) ==
    IF elems = <<>> THEN rp ELSE parseSeqElems(parseSeqElem(rp, Head(elems)), Tail(elems))

ImportRdf ==
    /\ pc = "rdf"
    /\ IF ~Has(otherFiles, RdfPath)
       THEN UNCHANGED <<meta, metaKeys, toc, tocKeys, log>>
       ELSE LET doc == otherFiles[RdfPath].content
                rp0 == [meta |-> meta, keys |-> metaKeys, toc |-> toc, tkeys |-> tocKeys,
                        thrown |-> FALSE]
                rp1 == parseItemElems(rp0, doc.items, dataDirs)
                rp2 == IF rp1.thrown THEN rp1 ELSE parseSeqElems(rp1, doc.seqs)
                found == log \cup {LogLine("Found scrapbook.rdf", 0, 0)}
            IN  IF ~doc.parses
                THEN /\ log' = found \cup {ErrorLine("Error importing scrapbook.rdf", 0, 0)}
                     /\ UNCHANGED <<meta, metaKeys, toc, tocKeys>>
                ELSE /\ meta' = rp2.meta
                     /\ metaKeys' = rp2.keys
                     /\ toc' = rp2.toc
                     /\ tocKeys' = rp2.tkeys
                     /\ log' = IF rp2.thrown
                               THEN found \cup {ErrorLine("Error importing scrapbook.rdf", 0, 0)}
                               ELSE found
    /\ pc' = "meta"
    /\ UNCHANGED <<inVars, favVars, outVars, runVars, usedClock, clock, dataDirs, treeFiles,
                   otherFiles, shard, queue, trace>>

-----------------------------------------------------------------------------
(* import(): "Import tree/meta*" and "Import tree/toc*" (lines 486-537).  A  *)
(* shard is [parses, keys, val]: whether the wrapper pattern and JSON.parse  *)
(* accept the text, and the object that JSON.parse returns.                  *)

\* the text matches the wrapper pattern and JSON.parse accepts it; an empty
\* file does not
Parses(data) == Has(data, "parses") /\ data.parses

\* a merge in which a field of an earlier shard wins
RECURSIVE MergeMetaKeepsEarlier(_, _, _, _)
MergeMetaKeepsEarlier(metas, keys, data, ids) ==
    IF ids = <<>> THEN [meta |-> metas, keys |-> keys]
    ELSE LET id == Head(ids)
             m0 == IF Has(metas, id) THEN metas[id] ELSE getDefaultMeta
         IN  MergeMetaKeepsEarlier(Put(metas, id, Assign(data[id], m0)), KeyAdd(keys, id),
                                   data, Tail(ids))

\* for (const id in data) { ... Object.assign(scrapbookData.meta[id], data[id]) }
RECURSIVE MergeMeta(_, _, _, _)
MergeMeta(metas, keys, data, ids) ==
    IF ids = <<>> THEN [meta |-> metas, keys |-> keys]
    ELSE LET id == Head(ids)
             m0 == IF Has(metas, id) THEN metas[id] ELSE getDefaultMeta
         IN  MergeMeta(Put(metas, id, Assign(m0, data[id])), KeyAdd(keys, id), data, Tail(ids))

\* the key order after Object.assign(target, data)
RECURSIVE KeysAssign(_, _)
KeysAssign(keys, ids) ==
    IF ids = <<>> THEN keys ELSE KeysAssign(KeyAdd(keys, Head(ids)), Tail(ids))

ImportMeta ==
    /\ pc = "meta"
    /\ shard' = 0
    /\ pc' = IF ShardCount("meta", treeFiles) = 0 THEN "toc" ELSE "metaShard"
    /\ UNCHANGED <<inVars, favVars, outVars, runVars, usedClock, clock, dataDirs, treeFiles,
                   otherFiles, meta, metaKeys, toc, tocKeys, queue, log, trace>>

ImportMetaShard ==
    /\ pc = "metaShard"
    /\ LET data == treeFiles[ShardPath("meta", shard)].content
           r == MergeMeta(meta, metaKeys, data.val, data.keys)
       IN  IF Parses(data)
           THEN /\ meta' = r.meta
                /\ metaKeys' = r.keys
                /\ log' = log \cup {LogLine("Importing meta", shard, 0)}
           ELSE /\ UNCHANGED <<meta, metaKeys>>
                /\ log' = log \cup {LogLine("Importing meta", shard, 0),
                                    ErrorLine("Error importing meta", shard, 0)}
    /\ shard' = shard + 1
    /\ pc' = IF shard + 1 = ShardCount("meta", treeFiles) THEN "toc" ELSE "metaShard"
    /\ UNCHANGED <<inVars, favVars, outVars, runVars, usedClock, clock, dataDirs, treeFiles,
                   otherFiles, toc, tocKeys, queue, trace>>

ImportToc ==
    /\ pc = "toc"
    /\ shard' = 0
    /\ pc' = IF ShardCount("toc", treeFiles) = 0 THEN "data" ELSE "tocShard"
    /\ UNCHANGED <<inVars, favVars, outVars, runVars, usedClock, clock, dataDirs, treeFiles,
                   otherFiles, meta, metaKeys, toc, tocKeys, queue, log, trace>>

\* a reader that stops at a shard that does not parse
ImportTocShardStops ==
    /\ pc = "tocShard"
    /\ LET data == treeFiles[ShardPath("toc", shard)].content
       IN  IF Parses(data)
           THEN /\ toc' = Assign(toc, data.val)
                /\ tocKeys' = KeysAssign(tocKeys, data.keys)
                /\ log' = log \cup {LogLine("Importing toc", shard, 0)}
                /\ pc' = IF shard + 1 = ShardCount("toc", treeFiles) THEN "data" ELSE "tocShard"
           ELSE /\ UNCHANGED <<toc, tocKeys>>
                /\ log' = log \cup {LogLine("Importing toc", shard, 0),
                                    ErrorLine("Error importing toc", shard, 0)}
                /\ pc' = "data"
    /\ shard' = shard + 1
    /\ UNCHANGED <<inVars, favVars, outVars, runVars, usedClock, clock, dataDirs, treeFiles,
                   otherFiles, meta, metaKeys, queue, trace>>

ImportTocShard ==
    /\ pc = "tocShard"
    /\ LET data == treeFiles[ShardPath("toc", shard)].content
       IN  IF Parses(data)
           THEN /\ toc' = Assign(toc, data.val)
                /\ tocKeys' = KeysAssign(tocKeys, data.keys)
                /\ log' = log \cup {LogLine("Importing toc", shard, 0)}
           ELSE /\ UNCHANGED <<toc, tocKeys>>
                /\ log' = log \cup {LogLine("Importing toc", shard, 0),
                                    ErrorLine("Error importing toc", shard, 0)}
    /\ shard' = shard + 1
    /\ pc' = IF shard + 1 = ShardCount("toc", treeFiles) THEN "data" ELSE "tocShard"
    /\ UNCHANGED <<inVars, favVars, outVars, runVars, usedClock, clock, dataDirs, treeFiles,
                   otherFiles, meta, metaKeys, queue, trace>>

-----------------------------------------------------------------------------
(* import(): "Import data/*" (lines 537-751).  An index document is          *)
(* [kind, parses, attrs, title, link]: attrs are the data-scrapbook-*        *)
(* attributes of its root element, title is document.title, link the href of *)
(* its first icon link ("" for none).  A packed index (.htz, .maff) also has *)
(* icons, the icon paths its archive holds; a .maff has rdf, the fields of   *)
(* its index.rdf.                                                            *)

HtmlNames == {"/index.html", ".html", ".htm", ".xhtml", ".xht"}

PackedNames == {".htz", ".maff"}

\* Object.keys(dataDirs).sort() without the ids that have a metadata entry
RECURSIVE SortAsc(_)
SortAsc(S) == IF S = {} THEN <<>> ELSE <<Min(S)>> \o SortAsc(S \ {Min(S)})

ImportData ==
    /\ pc = "data"
    /\ queue' = SortAsc(DOMAIN dataDirs \ DOMAIN meta)
    /\ pc' = IF DOMAIN dataDirs \ DOMAIN meta = {} THEN "fix" ELSE "dataItem"
    /\ log' = log \cup {LogLine("Inspecting data files", 0, 0)}
    /\ UNCHANGED <<inVars, favVars, outVars, runVars, usedClock, clock, dataDirs, treeFiles,
                   otherFiles, meta, metaKeys, toc, tocKeys, shard, trace>>

\* the singleHtmlJs resource marker of line 729 and the data URI it resolves to
ResolveResource(icon) ==
    IF icon = "data:image/png;scrapbook-resource=0," THEN "data:image/png;base64,AAAA"
    ELSE icon

\* "Merge information from html document to meta" (lines 656-742): the new
\* entry, and whether the icon step threw
MergeDocument(m, doc, packed) ==
    LET copied == {f \in {"id", "type", "source", "create", "comment", "folder", "exported"} :
                     Has(doc.attrs, f)}
        m1 == Assign(m, [f \in copied |-> doc.attrs[f]])
        m2 == IF Has(doc.attrs, "title") THEN Put(m1, "title", doc.attrs.title)
              ELSE IF doc.title # "" THEN Put(m1, "title", doc.title)
              ELSE m1
        icon == IF Has(doc.attrs, "icon") THEN doc.attrs.icon ELSE doc.link
        \* zipDataDir.file(icon) is null for a path the archive does not hold
        throws == packed /\ icon \notin doc.icons
        found == IF packed THEN "data:packed;" \o icon ELSE ResolveResource(icon)
    IN  [meta |-> IF ~throws /\ found # "" THEN Put(m2, "icon", found) ELSE m2,
         thrown |-> throws]

\* the merge of a .maff index.rdf (lines 621-632)
MergeMaffRdf(m, rdf) ==
    LET m1 == IF Truthy(rdf, "title") THEN Put(m, "title", rdf.title) ELSE m
        m2 == IF Truthy(rdf, "originalurl") THEN Put(m1, "source", rdf.originalurl) ELSE m1
    IN  IF Truthy(rdf, "archivetime") THEN Put(m2, "create", dateToId(rdf.archivetime)) ELSE m2

\* a test that takes the index.dat whatever the index is
HasIndexDatAnyIndex(itemFiles, index, id) == DataPath(id, "/index.dat") \in DOMAIN itemFiles

\* "check for index.dat of legacy ScrapBook X" (lines 554-559): the index.dat is
\* read when there is no index or the index is `${id}/index.html`
HasIndexDat(itemFiles, index, id) ==
    /\ index = NoIndex \/ index.name = "/index.html"
    /\ DataPath(id, "/index.dat") \in DOMAIN itemFiles

ImportDataItem ==
    /\ pc = "dataItem"
    /\ LET id == Head(queue)
           itemFiles == dataDirs[id]
           index == getIndexPath(itemFiles, id)
           datPath == DataPath(id, "/index.dat")
           hasDat == HasIndexDat(itemFiles, index, id)
           indexDatMeta == IF hasDat THEN parseIndexDat(itemFiles[datPath].content) ELSE NoDat
           datThrows == indexDatMeta # NoDat /\ mergeLegacyThrows(indexDatMeta)
           importedIndexDat == indexDatMeta # NoDat /\ ~datThrows
           \* the entry after the index.dat step; <<>> is also "no entry"
           hasA == Has(meta, id) \/ indexDatMeta # NoDat
           mA == IF importedIndexDat THEN mergeLegacyMeta(getDefaultMeta, indexDatMeta)
                 ELSE getDefaultMeta
           logA == (IF hasDat THEN {LogLine("Found index.dat", id, 0)} ELSE {})
                   \cup (IF datThrows THEN {ErrorLine("Error importing index.dat", id, 0)} ELSE {})
           \* meta.index and meta.modify
           file == itemFiles[index]
           fileModify == dateToId(file.lastModified)
           mB0 == Put(mA, "index", index)
           mB == IF Has(mB0, "modify") /\ fileModify > mB0.modify
                 THEN Put(mB0, "modify", fileModify) ELSE mB0
           \* opening the index file
           c == file.content
           isHtml == index.name \in HtmlNames
           packed == index.name \in PackedNames
           opens == (isHtml \/ packed) /\ c.parses
           mC == IF index.name = ".maff" /\ Has(c, "rdf") THEN MergeMaffRdf(mB, c.rdf) ELSE mB
           d == MergeDocument(mC, c, packed)
           final == IF index = NoIndex THEN mA
                    ELSE IF importedIndexDat THEN mB
                    ELSE IF ~opens THEN mB
                    ELSE d.meta
           logB == IF index = NoIndex \/ importedIndexDat THEN {}
                   ELSE {LogLine("Generating metadata entry", id, 0)}
                        \cup (IF ~opens \/ d.thrown
                              THEN {ErrorLine("Error inspecting", id, 0)} ELSE {})
       IN  /\ IF index = NoIndex /\ ~hasA
              THEN UNCHANGED <<meta, metaKeys>>
              ELSE /\ meta' = Put(meta, id, final)
                   /\ metaKeys' = KeyAdd(metaKeys, id)
           /\ log' = log \cup logA \cup logB
    /\ queue' = Tail(queue)
    /\ pc' = IF Tail(queue) = <<>> THEN "fix" ELSE "dataItem"
    /\ UNCHANGED <<inVars, favVars, outVars, runVars, usedClock, clock, dataDirs, treeFiles,
                   otherFiles, toc, tocKeys, shard, trace>>

-----------------------------------------------------------------------------
(* import(): "Fix meta and toc" (lines 751-911), the whole handler *)

MaxClock == 16

\* the pass record when the handler starts
StartPass(tick) ==
    [meta |-> meta, keys |-> metaKeys, dirs |-> dataDirs,
     log |-> log \cup {LogLine("Inspecting metadata", 0, 0)},
     now |-> clock, tick |-> tick, used |-> FALSE, thrown |-> FALSE]

\* the TOC is pruned against the metadata st1 of the metadata loop
Pruned(st1) ==
    PruneToc([toc |-> toc, tkeys |-> tocKeys,
              log |-> st1.log \cup {LogLine("Inspecting TOC", 0, 0)},
              referred |-> {}, titles |-> <<>>, kept |-> <<>>],
             st1.meta, tocKeys)

\* the record that orphan re-insertion starts with
StartInsert(st1, tp) ==
    [st |-> [st1 EXCEPT !.log = tp.log \cup {LogLine("Adding new items", 0, 0)}],
     toc |-> tp.toc, tkeys |-> tp.tkeys, titles |-> tp.titles,
     referred |-> tp.referred, parentId |-> root, created |-> <<>>,
     trace |-> <<>>]

\* what the handler leaves behind when it ends with the record ip
Ended(ip) ==
    [st |-> ip.st, toc |-> ip.toc, tkeys |-> ip.tkeys, trace |-> ip.trace, thrown |-> FALSE]

\* the passes that follow the metadata loop
AfterLoop(st1) ==
    IF st1.thrown
    THEN [st |-> st1, toc |-> toc, tkeys |-> tocKeys, trace |-> <<>>, thrown |-> TRUE]
    ELSE Ended(AddEntries(StartInsert(st1, Pruned(st1)), SortIds(st1.meta, DOMAIN st1.meta)))

\* the handler's effect when the clock advances by tick after each reading
FixResult(tick) == AfterLoop(FixMetaLoop(StartPass(tick), metaKeys))

\* a handler whose exception does not stop the stages that follow
FixEndsGoesOn(r) ==
    /\ r.st.now <= MaxClock
    /\ meta' = r.st.meta
    /\ metaKeys' = r.st.keys
    /\ dataDirs' = r.st.dirs
    /\ toc' = r.toc
    /\ tocKeys' = r.tkeys
    /\ trace' = r.trace
    /\ clock' = r.st.now
    /\ log' = IF r.thrown THEN r.st.log \cup {ErrorLine("Unexpected error", 0, 0)}
              ELSE r.st.log
    /\ usedClock' = r.st.used
    /\ pc' = "favicon"

\* the handler ends with r; an exception reaches the catch of lines 1244-1247
FixEnds(r) ==
    /\ r.st.now <= MaxClock
    /\ meta' = r.st.meta
    /\ metaKeys' = r.st.keys
    /\ dataDirs' = r.st.dirs
    /\ toc' = r.toc
    /\ tocKeys' = r.tkeys
    /\ trace' = r.trace
    /\ clock' = r.st.now
    /\ log' = IF r.thrown THEN r.st.log \cup {ErrorLine("Unexpected error", 0, 0)}
              ELSE r.st.log
    /\ usedClock' = r.st.used
    /\ pc' = IF r.thrown THEN "aborted" ELSE "favicon"

FixMetaAndToc ==
    /\ pc = "fix"
    /\ \E tick \in {0, 1} : FixEnds(FixResult(tick))
    /\ UNCHANGED <<inVars, favVars, outVars, runVars, treeFiles, otherFiles, shard, queue>>

-----------------------------------------------------------------------------
(* import(): "Generate cache for favicon" (lines 911-1008).  The content of  *)
(* a file that is no document is [kind |-> "blob", bytes]; a task is         *)
(* [at, url, deep, out]: the callback that runs next, favIconUrl, whether    *)
(* index holds a '/', and the value that the last callback stores.           *)

HttpUrls == {"http://h/a.png", "http://h/b"}

DataUris == {"data:image/png;base64,AAAA", "data:packed;favicon.ico"}

\* favIconUrl.indexOf(':') !== -1
HasColon(icon) == icon \in HttpUrls \cup DataUris

Blob(bytes) == [kind |-> "blob", bytes |-> bytes]

\* new Blob([""])
EmptyBlob == Blob("")

\* scrapbook.sha1: the digest of the bytes
sha1(bytes) == "sha1-" \o bytes

\* the digest of the content of a file
sha1Of(content) == <<"sha1", content>>

NoFile == [name |-> "", bytes |-> ""]

\* scrapbook.dataUriToFile(uri, false): the file is named by digest and type
dataUriToFile(uri) ==
    IF uri = "data:packed;favicon.ico"
    THEN [name |-> sha1("imgP") \o ".ico", bytes |-> "imgP"]
    ELSE [name |-> sha1("imgA") \o ".png", bytes |-> "imgA"]

\* scrapbook.filenameParts(scrapbook.urlToFilename(xhr.responseURL))[1]
UrlExt(url) == IF url = "http://h/a.png" THEN "png" ELSE ""

\* Mime.prototype.extension(mime)
MimeExt(mime) ==
    CASE mime = "image/png" -> "png"
      [] mime = "image/x-icon" -> "ico"
      [] OTHER -> ""

ImageMimes == {"image/png", "image/x-icon"}

\* a fetch that takes a response of every content type
XhrFileAnyMime(url, resp) ==
    IF ~resp.ok THEN [state |-> "failed", file |-> NoFile]
    ELSE [state |-> "ok", file |-> [name |-> sha1(resp.bytes), bytes |-> resp.bytes]]

\* the callbacks of scrapbook.xhr(...).then (lines 961-981) on the response
\* resp = [ok, mime, bytes]: the promise settles as [state, file]
XhrFile(url, resp) ==
    LET ext0 == UrlExt(url)
        ext == IF ext0 # "" THEN ext0 ELSE MimeExt(resp.mime)
        name == sha1(resp.bytes) \o (IF ext # "" THEN "." \o ext ELSE "")
    IN  IF ~resp.ok THEN [state |-> "failed", file |-> NoFile]
        ELSE IF resp.mime \notin ImageMimes /\ resp.mime # "application/octet-stream"
        THEN [state |-> "failed", file |-> NoFile]
        ELSE [state |-> "ok", file |-> [name |-> name, bytes |-> resp.bytes]]

\* `${index.indexOf('/') !== -1 ? '../' : ''}../${path}` for tree/favicon/<name>
CacheUrl(deep, name) == (IF deep THEN "../" ELSE "") \o "../tree/favicon/" \o name

NewTask == [at |-> "read", url |-> "", deep |-> FALSE, out |-> ""]

FavStart ==
    /\ pc = "favicon"
    /\ task' = [id \in DOMAIN meta |-> NewTask]
    /\ urlAccessMap' = <<>>
    /\ started' = <<>>
    /\ log' = log \cup {LogLine("Inspecting favicons", 0, 0)}
    /\ pc' = "favTasks"
    /\ UNCHANGED <<inVars, outVars, runVars, usedClock, clock, dataDirs, treeFiles, otherFiles,
                   meta, metaKeys, toc, tocKeys, shard, queue, trace>>

\* the first callback of a task (lines 918-921)
FavRead ==
    /\ pc = "favTasks"
    /\ \E id \in DOMAIN task :
         /\ task[id].at = "read"
         /\ LET favIconUrl == StrOr(meta[id], "icon")
                deep == Has(meta[id], "index") /\ meta[id].index.name = "/index.html"
            IN  task' = [task EXCEPT ![id] =
                           IF ~HasColon(favIconUrl)
                           THEN [at |-> "set", url |-> "", deep |-> deep, out |-> favIconUrl]
                           ELSE [at |-> "lookup", url |-> favIconUrl, deep |-> deep, out |-> ""]]
    /\ UNCHANGED <<inVars, outVars, runVars, usedClock, clock, pc, dataDirs, treeFiles,
                   otherFiles, meta, metaKeys, toc, tocKeys, shard, queue, log, trace,
                   urlAccessMap, started>>

\* a lookup that ignores the previous access
LookupAfresh(map, url) == Put(map, url, [state |-> "queued", file |-> NoFile])

\* a lookup that starts a failed source anew
LookupRetriesFailed(map, url) ==
    IF Has(map, url) /\ map[url].state # "failed" THEN map
    ELSE Put(map, url, [state |-> "queued", file |-> NoFile])

\* urlAccessMap.get and urlAccessMap.set in one callback (lines 926-984)
Lookup(map, url) == IF Has(map, url) THEN map ELSE Put(map, url, [state |-> "queued", file |-> NoFile])

FavLookup ==
    /\ pc = "favTasks"
    /\ \E id \in DOMAIN task :
         /\ task[id].at = "lookup"
         /\ urlAccessMap' = Lookup(urlAccessMap, task[id].url)
         /\ task' = [task EXCEPT ![id].at = "wait"]
    /\ UNCHANGED <<inVars, outVars, runVars, usedClock, clock, pc, dataDirs, treeFiles,
                   otherFiles, meta, metaKeys, toc, tocKeys, shard, queue, log, trace, started>>

\* the callback of the promise p (lines 933-960): the fetch or the decode starts
FavFetch ==
    /\ pc = "favTasks"
    /\ \E url \in DOMAIN urlAccessMap :
         /\ urlAccessMap[url].state = "queued"
         /\ urlAccessMap' = [urlAccessMap EXCEPT ![url].state = "fetching"]
         /\ started' = Put(started, url, IF Has(started, url) THEN started[url] + 1 ELSE 1)
    /\ UNCHANGED <<inVars, outVars, runVars, usedClock, clock, pc, dataDirs, treeFiles,
                   otherFiles, meta, metaKeys, toc, tocKeys, shard, queue, log, trace, task>>

\* the promise p settles (lines 935, 961-981)
FavFetched ==
    /\ pc = "favTasks"
    /\ \E url \in DOMAIN urlAccessMap :
         /\ urlAccessMap[url].state = "fetching"
         /\ urlAccessMap' = [urlAccessMap EXCEPT ![url] =
                               IF url \in DataUris
                               THEN [state |-> "ok", file |-> dataUriToFile(url)]
                               ELSE XhrFile(url, net[url])]
    /\ UNCHANGED <<inVars, outVars, runVars, usedClock, clock, pc, dataDirs, treeFiles,
                   otherFiles, meta, metaKeys, toc, tocKeys, shard, queue, log, trace, task,
                   started>>

\* a test that takes no cache file for saved
SavedNever(tree, path) == FALSE

\* treeFiles[path] exists and is not empty
Saved(tree, path) == Has(tree, path) /\ tree[path].content # EmptyBlob

\* the callbacks on the settled promise (lines 985-1000)
FavStore ==
    /\ pc = "favTasks"
    /\ \E id \in DOMAIN task :
         /\ task[id].at = "wait"
         /\ urlAccessMap[task[id].url].state \in {"ok", "failed"}
         /\ LET r == urlAccessMap[task[id].url]
                path == TreePath("favicon", r.file.name)
            IN  IF r.state = "failed"
                THEN /\ log' = log \cup {ErrorLine("Removed invalid favicon", id, 0)}
                     /\ task' = [task EXCEPT ![id].at = "set", ![id].out = ""]
                     /\ zip' = zip
                ELSE /\ zip' = IF Saved(treeFiles, path) THEN zip
                               ELSE Put(zip, path, Blob(r.file.bytes))
                     /\ log' = log \cup {LogLine(IF Saved(treeFiles, path)
                                                 THEN "Use saved favicon" ELSE "Saved favicon",
                                                 id, 0)}
                     /\ task' = [task EXCEPT ![id].at = "set",
                                             ![id].out = CacheUrl(task[id].deep, r.file.name)]
    /\ UNCHANGED <<inVars, runVars, usedClock, clock, pc, dataDirs, treeFiles, otherFiles,
                   meta, metaKeys, toc, tocKeys, shard, queue, trace, urlAccessMap, started,
                   staged, emitted>>

\* scrapbookData.meta[id].icon = favIconUrl || "" (lines 1001-1003)
FavSet ==
    /\ pc = "favTasks"
    /\ \E id \in DOMAIN task :
         /\ task[id].at = "set"
         /\ meta' = [meta EXCEPT ![id] = Put(meta[id], "icon", task[id].out)]
         /\ task' = [task EXCEPT ![id].at = "done"]
    /\ UNCHANGED <<inVars, outVars, runVars, usedClock, clock, pc, dataDirs, treeFiles,
                   otherFiles, metaKeys, toc, tocKeys, shard, queue, log, trace, urlAccessMap,
                   started>>

\* Promise.all(tasks) is fulfilled
FavDone ==
    /\ pc = "favTasks"
    /\ \A id \in DOMAIN task : task[id].at = "done"
    /\ pc' = "sweep"
    /\ UNCHANGED <<inVars, favVars, outVars, runVars, usedClock, clock, dataDirs, treeFiles,
                   otherFiles, meta, metaKeys, toc, tocKeys, shard, queue, log, trace>>

-----------------------------------------------------------------------------
(* import(): "Check for missing and unused favicons" (lines 1009-1035) *)

\* the file names below tree/favicon/ that an icon value can hold
FavNames == {sha1("imgA") \o ".png", sha1("imgB") \o ".ico", sha1("imgB"),
             sha1("imgP") \o ".ico", "old.png", "lost.png"}

NoPath == Path("", "", 0, "")

\* RegExp.$1 of /^(?:[.][.][/]){1,2}(tree[/]favicon[/].*)$/, NoPath for no match
CachedPath(icon) ==
    IF \E n \in FavNames, deep \in BOOLEAN : icon = CacheUrl(deep, n)
    THEN TreePath("favicon", CHOOSE n \in FavNames : \E deep \in BOOLEAN : icon = CacheUrl(deep, n))
    ELSE NoPath

\* referedFavIcons
Refered(metas) == {CachedPath(StrOr(metas[id], "icon")) : id \in DOMAIN metas} \ {NoPath}

\* a sweep that takes every cached file for unused
UnusedAll(tree, metas) == {p \in DOMAIN tree : p.sub = "favicon"}

\* the tree/favicon/ files that no entry refers to
Unused(tree, metas) == {p \in DOMAIN tree : p.sub = "favicon" /\ p \notin Refered(metas)}

\* zipAddFile for every path of paths, with the same content
AddAll(z, paths, content) == Assign(z, [p \in paths |-> content])

CheckFavicons ==
    /\ pc = "sweep"
    /\ log' = log
              \cup {ErrorLine("Missing favicon", id, 0) :
                      id \in {i \in DOMAIN meta :
                                LET path == CachedPath(StrOr(meta[i], "icon"))
                                IN  path # NoPath /\ ~Has(treeFiles, path) /\ ~Has(zip, path)}}
              \cup {ErrorLine("Unused favicon", 0, p.name) : p \in Unused(treeFiles, meta)}
    /\ zip' = AddAll(zip, Unused(treeFiles, meta), EmptyBlob)
    /\ pc' = "generate"
    /\ UNCHANGED <<inVars, favVars, runVars, usedClock, clock, dataDirs, treeFiles, otherFiles,
                   meta, metaKeys, toc, tocKeys, shard, queue, trace, staged, emitted>>

-----------------------------------------------------------------------------
(* import(): "Generate files" (lines 1035-1087) *)

\* a file whose header carries the time of its generation
generateMetaFileStamped(keys, jsonData) ==
    [kind |-> "js", parses |-> TRUE, keys |-> keys, val |-> jsonData,
     wrap |-> "scrapbook.meta " \o ToString(clock)]

\* scrapbook.meta(JSON.stringify(jsonData)) under the fixed header
generateMetaFile(keys, jsonData) ==
    [kind |-> "js", parses |-> TRUE, keys |-> keys, val |-> jsonData, wrap |-> "scrapbook.meta"]

generateTocFile(keys, jsonData) ==
    [kind |-> "js", parses |-> TRUE, keys |-> keys, val |-> jsonData, wrap |-> "scrapbook.toc"]

\* the pages depend on scrapbookData.title only
generateMapFile(title) == [kind |-> "page", page |-> "map", title |-> title]

generateFrameFile(title) == [kind |-> "page", page |-> "frame", title |-> title]

\* inputData.name
BookTitle == "book"

\* every previous shard `tree/${base}${i}.js`, i >= 1, whatever lies below it
LoadedShardsAll(base, tree) ==
    {ShardPath(base, i) : i \in {n \in 1..Cardinality(DOMAIN tree) :
                                   ShardPath(base, n) \in DOMAIN tree}}

\* the loaded shards `tree/${base}${i}.js`, i >= 1, that get an empty file
LoadedShards(base, tree) ==
    {ShardPath(base, i) : i \in {n \in 1..Cardinality(DOMAIN tree) :
                                   \A j \in 1..n : ShardPath(base, j) \in DOMAIN tree}}

GenerateFiles ==
    /\ pc = "generate"
    /\ LET z1 == Put(zip, ShardPath("meta", 0), generateMetaFile(metaKeys, meta))
           z2 == AddAll(z1, LoadedShards("meta", treeFiles), EmptyBlob)
           z3 == Put(z2, ShardPath("toc", 0), generateTocFile(tocKeys, toc))
           z4 == AddAll(z3, LoadedShards("toc", treeFiles), EmptyBlob)
           z5 == Put(z4, TreePath("", "map.html"), generateMapFile(BookTitle))
       IN  zip' = Put(z5, TreePath("", "frame.html"), generateFrameFile(BookTitle))
    /\ log' = log \cup {LogLine("Checking for created and updated files", 0, 0)}
    /\ pc' = "resources"
    /\ UNCHANGED <<inVars, favVars, runVars, usedClock, clock, dataDirs, treeFiles, otherFiles,
                   meta, metaKeys, toc, tocKeys, shard, queue, trace, staged, emitted>>

-----------------------------------------------------------------------------
(* import(): "Include resource files" (lines 1087-1119) *)

resToInclude ==
    <<"toggle.png", "collapse.png", "expand.png", "external.png", "item.png", "fclose.png",
      "fopen.png", "note.png", "postit.png">>

IncludeResources ==
    /\ pc = "resources"
    /\ queue' = SelectSeq(resToInclude, LAMBDA n : ~Has(treeFiles, TreePath("icon", n)))
    /\ pc' = IF queue' = <<>> THEN "diff" ELSE "resource"
    /\ UNCHANGED <<inVars, favVars, outVars, runVars, usedClock, clock, dataDirs, treeFiles,
                   otherFiles, meta, metaKeys, toc, tocKeys, shard, log, trace>>

\* one link of the chain: the bundled resource is read and staged
IncludeResource ==
    /\ pc = "resource"
    /\ zip' = Put(zip, TreePath("icon", Head(queue)), Blob("resources/" \o Head(queue)))
    /\ queue' = Tail(queue)
    /\ pc' = IF Tail(queue) = <<>> THEN "diff" ELSE "resource"
    /\ UNCHANGED <<inVars, favVars, runVars, usedClock, clock, dataDirs, treeFiles, otherFiles,
                   meta, metaKeys, toc, tocKeys, shard, log, trace, staged, emitted>>

-----------------------------------------------------------------------------
(* import(): "Check for same files and generate backup files" (lines 1119-1154) *)

\* 'tree.bak/' + path.slice('tree/'.length)
BakPath(path) == Path("tree.bak", path.sub, 0, path.name)

\* the paths that zip.forEach chains a comparison for
Compared(z, tree) == {p \in DOMAIN z : p.top = "tree" /\ p.sub # "cache" /\ Has(tree, p)}

RECURSIVE SeqOf(_)
SeqOf(S) == IF S = {} THEN <<>>
            ELSE LET x == CHOOSE y \in S : TRUE IN <<x>> \o SeqOf(S \ {x})

CheckSameFiles ==
    /\ pc = "diff"
    /\ staged' = zip
    /\ queue' = SeqOf(Compared(zip, treeFiles))
    /\ pc' = IF queue' = <<>> THEN "emit" ELSE "diffFile"
    /\ UNCHANGED <<inVars, favVars, runVars, usedClock, clock, dataDirs, treeFiles, otherFiles,
                   meta, metaKeys, toc, tocKeys, shard, log, trace, zip, emitted>>

\* a comparison that takes every file for changed
CompareAlwaysDiffers(z, path, oldFile) == Put(z, BakPath(path), oldFile.content)

\* a comparison that stages no backup of a changed file
CompareNoBackup(z, path, oldFile) ==
    IF sha1Of(oldFile.content) # sha1Of(z[path]) THEN z ELSE Del(z, path)

\* the outcome of the comparison of shaOld and shaNew (lines 1143-1147)
Compare(z, path, oldFile) ==
    IF sha1Of(oldFile.content) # sha1Of(z[path]) THEN Put(z, BakPath(path), oldFile.content)
    ELSE Del(z, path)

CheckSameFile ==
    /\ pc = "diffFile"
    /\ zip' = Compare(zip, Head(queue), treeFiles[Head(queue)])
    /\ queue' = Tail(queue)
    /\ pc' = IF Tail(queue) = <<>> THEN "emit" ELSE "diffFile"
    /\ UNCHANGED <<inVars, favVars, runVars, usedClock, clock, dataDirs, treeFiles, otherFiles,
                   meta, metaKeys, toc, tocKeys, shard, log, trace, staged, emitted>>

-----------------------------------------------------------------------------
(* import(): "Generate the zip file and download it", "We are done!" (lines   *)
(* 1154-1243)                                                                *)

\* nothing was emitted
NotEmitted == [how |-> "nothing", files |-> <<>>]

\* an emission that does not look whether anything is staged
EmitAlways ==
    /\ pc = "emit"
    /\ log' = log \cup {LogLine("Generating zip file", 0, 0)}
    /\ emitted' = [how |-> "zip", files |-> zip]
    /\ pc' = "finish"
    /\ UNCHANGED <<inVars, favVars, runVars, usedClock, clock, dataDirs, treeFiles, otherFiles,
                   meta, metaKeys, toc, tocKeys, shard, queue, trace, zip, staged>>

\* an emission that never writes single files
EmitZipOnly ==
    /\ pc = "emit"
    /\ IF DOMAIN zip = {}
       THEN /\ log' = log \cup {LogLine("Current files are already up-to-date", 0, 0)}
            /\ emitted' = NotEmitted
       ELSE /\ log' = log \cup {LogLine("Generating zip file", 0, 0)}
            /\ emitted' = [how |-> "zip", files |-> zip]
    /\ pc' = "finish"
    /\ UNCHANGED <<inVars, favVars, runVars, usedClock, clock, dataDirs, treeFiles, otherFiles,
                   meta, metaKeys, toc, tocKeys, shard, queue, trace, zip, staged>>

Emit ==
    /\ pc = "emit"
    /\ IF DOMAIN zip = {}
       THEN /\ log' = log \cup {LogLine("Current files are already up-to-date", 0, 0)}
            /\ emitted' = NotEmitted
       ELSE IF options.autoDownload /\ options.folderMatches
       THEN /\ log' = log \cup {LogLine("Downloading files", 0, 0)}
            /\ emitted' = [how |-> "files", files |-> zip]
       ELSE /\ log' = log \cup {LogLine("Generating zip file", 0, 0)}
                          \cup (IF options.autoDownload
                                THEN {ErrorLine("Picked folder does not match", 0, 0)} ELSE {})
            /\ emitted' = [how |-> "zip", files |-> zip]
    /\ pc' = "finish"
    /\ UNCHANGED <<inVars, favVars, runVars, usedClock, clock, dataDirs, treeFiles, otherFiles,
                   meta, metaKeys, toc, tocKeys, shard, queue, trace, zip, staged>>

Done ==
    /\ pc = "finish"
    /\ log' = log \cup {LogLine("Done", 0, 0)}
    /\ pc' = "done"
    /\ UNCHANGED <<inVars, favVars, outVars, runVars, usedClock, clock, dataDirs, treeFiles,
                   otherFiles, meta, metaKeys, toc, tocKeys, shard, queue, trace>>

-----------------------------------------------------------------------------
(* The inputs.  Each item id of ItemIds gets one profile: the files of its   *)
(* data folder and its entry in tree/meta.js, if any.                        *)

ItemIds == {1, 2, 3}

\* an id that no input gives a metadata entry
Dangling == 7

File(lastModified, content) == [lastModified |-> lastModified, content |-> content]

Doc(attrs) == [kind |-> "html", parses |-> TRUE, attrs |-> attrs, title |-> "Doc", link |-> ""]

Junk == File(3, [kind |-> "bin", parses |-> FALSE])

\* the id that the index document of item i declares in profile "newId"
Other(i) == (i % 3) + 1

Profiles == {"absent", "new", "newId", "newFresh", "hint2", "hint1", "junk", "known",
             "folder", "stale", "noIndex", "lostIndex", "bookmark", "jsId", "alias"}

\* the profiles of the last item id
FewProfiles == {"absent", "new", "newId", "folder", "hint2"}

\* the profiles of an item with the index.dat of legacy ScrapBook X
LegacyProfiles == {"legacy", "legacyHtm", "legacyOnly", "legacyEmpty", "legacyBad"}

\* the text of an index.dat: its number of lines and its key-tab-value fields
Dat(lines, fields) ==
    File(4, [kind |-> "dat", parses |-> TRUE, lines |-> lines, fields |-> fields])

\* the fields of the index.dat of item i
DatFields(i) ==
    [id |-> i, title |-> "Old", type |-> "note", icon |-> "", create |-> 1, modify |-> 9,
     source |-> "http://h/page.html", comment |-> "", exported |-> 5]

\* the id whose index document declares the id i in profile "newId"
Prev(i) == ((i + 1) % 3) + 1

\* the files of data/<i>... by name
ItemFiles(i, k) ==
    CASE k = "new" -> ("/index.html" :> File(5, Doc(<<>>)))
      [] k = "newId" -> ("/index.html" :> File(5, Doc([id |-> Other(i)])))
      [] k = "newFresh" -> (".html" :> File(5, Doc([id |-> i + 3, title |-> "Moved"])))
      [] k = "hint2" -> ("/index.html" :>
                           File(5, Doc([folder |-> <<"Work", TAB, "Projects">>])))
      [] k = "hint1" -> ("/index.html" :> File(5, Doc([folder |-> <<"Work">>, create |-> 4])))
      [] k = "junk" -> ("/unknown.txt" :> Junk)
      [] k = "known" -> ("/index.html" :> File(5, Doc(<<>>)))
      [] k = "noIndex" -> (".html" :> File(5, Doc(<<>>)))
      [] k = "lostIndex" -> ("/unknown.txt" :> Junk)
      [] k = "jsId" -> ("/index.html" :> File(5, Doc(<<>>)))
      [] k = "legacy" -> ("/index.html" :> File(5, Doc(<<>>))
                          @@ "/index.dat" :> Dat(8, DatFields(i)))
      [] k = "legacyHtm" -> (".html" :> File(5, Doc(<<>>))
                             @@ "/index.dat" :> Dat(8, DatFields(i)))
      [] k = "legacyOnly" -> ("/index.dat" :> Dat(8, DatFields(i)))
      [] k = "legacyEmpty" -> ("/index.html" :> File(5, Doc(<<>>))
                               @@ "/index.dat" :> Dat(1, <<>>))
      [] k = "legacyBad" -> ("/index.html" :> File(5, Doc(<<>>))
                             @@ "/index.dat" :> Dat(2, [id |-> i, title |-> "Old"]))
      [] k \in {"iconA", "iconB", "iconCached"} -> ("/index.html" :> File(5, Doc(<<>>)))
      [] k \in {"iconA2", "iconData"} -> (".html" :> File(5, Doc(<<>>)))
      [] OTHER -> <<>>

\* the entry of item i in tree/meta.js; <<>> stands for no entry in the
\* profiles that have none
IconProfiles == {"iconA", "iconA2", "iconB", "iconData", "iconCached"}

HasJsEntry(k) ==
    k \in {"known", "folder", "stale", "noIndex", "lostIndex", "bookmark", "jsId", "alias"}
         \cup IconProfiles

\* the entry of an item with an index document and the icon value icon
IconEntry(i, name, icon) ==
    [index |-> DataPath(i, name), title |-> "I", type |-> "", create |-> 1, modify |-> 2,
     source |-> "", icon |-> icon, comment |-> ""]


JsEntry(i, k) ==
    CASE k = "known" -> [index |-> DataPath(i, "/index.html"), title |-> "A", type |-> "",
                         create |-> 1, modify |-> 2, source |-> "http://h/page.html",
                         icon |-> "", comment |-> ""]
      [] k = "folder" -> [title |-> "Work", type |-> "folder", create |-> 1, modify |-> 1]
      [] k = "stale" -> [index |-> DataPath(i, "/index.html"), title |-> "Gone", type |-> "",
                         create |-> 1, modify |-> 1]
      [] k = "noIndex" -> [type |-> "", source |-> "http://h/page.html", create |-> 2]
      [] k = "lostIndex" -> [index |-> DataPath(i, "/index.html"), title |-> "Projects",
                             type |-> "", create |-> 1, modify |-> 1]
      [] k = "bookmark" -> [type |-> "bookmark", source |-> "http://h/"]
      [] k = "jsId" -> [id |-> Other(i), index |-> DataPath(i, "/index.html"), title |-> "B",
                        type |-> "", create |-> 1, modify |-> 3]
      [] k = "alias" -> [index |-> DataPath(Prev(i), "/index.html"), title |-> "Alias",
                         type |-> "", create |-> 1, modify |-> 1]
      [] k = "iconA" -> IconEntry(i, "/index.html", "http://h/a.png")
      [] k = "iconA2" -> IconEntry(i, ".html", "http://h/a.png")
      [] k = "iconB" -> IconEntry(i, "/index.html", "http://h/b")
      [] k = "iconData" -> IconEntry(i, ".html", "data:image/png;base64,AAAA")
      [] k = "iconCached" -> IconEntry(i, "/index.html", CacheUrl(TRUE, "old.png"))
      [] OTHER -> <<>>

\* the object of tree/toc.js; none is NoToc
NoToc == [keys |-> <<>>, val |-> <<>>, none |-> TRUE]

TocOf(keys, val) == [keys |-> keys, val |-> val, none |-> FALSE]

TocInputs ==
    { NoToc,
      TocOf(<<root>>, root :> <<1, 2>>),
      TocOf(<<root>>, root :> <<2, 1, 3>>),
      TocOf(<<root>>, root :> <<3>>),
      TocOf(<<root>>, root :> <<1, 1>>),
      TocOf(<<root>>, root :> <<Dangling, 1>>),
      TocOf(<<root>>, root :> <<1, root>>),
      TocOf(<<root, 1>>, root :> <<1>> @@ 1 :> <<2, 3>>),
      TocOf(<<root, 1>>, root :> <<1>> @@ 1 :> <<Dangling>>),
      TocOf(<<root, 1>>, root :> <<1>> @@ 1 :> <<2>>),
      TocOf(<<Dangling, root>>, Dangling :> <<1>> @@ root :> <<>>),
      TocOf(<<1, 2>>, 1 :> <<2>> @@ 2 :> <<1>>),
      TocOf(<<hidden, root>>, hidden :> <<2>> @@ root :> <<1>>),
      TocOf(<<root, 1, 3>>, root :> <<1, 3>> @@ 1 :> <<2>> @@ 3 :> <<2>>) }

\* the parsed scrapbook.rdf; none is NoRdf
NoRdf == [none |-> TRUE, items |-> <<>>, seqs |-> <<>>]

\* a legacy store: an item, a folder, and the lists of root and of the folder
RdfGood ==
    [none |-> FALSE,
     items |-> << [about |-> 1,
                   attrs |-> [id |-> 1, title |-> "Legacy", type |-> "note", icon |-> "",
                              source |-> "http://h/page.html", create |-> 1, modify |-> 1]],
                  [about |-> 2,
                   attrs |-> [title |-> "Work", type |-> "folder", icon |-> ""]],
                  [about |-> root, attrs |-> <<>>] >>,
     seqs |-> << [about |-> root, li |-> <<2, 1, Dangling, 0>>],
                 [about |-> 2, li |-> <<3>>],
                 [about |-> 0, li |-> <<1>>] >>]

\* a legacy store whose second item has no icon attribute
RdfBad ==
    [none |-> FALSE,
     items |-> << [about |-> 3, attrs |-> [title |-> "Kept", type |-> "", icon |-> ""]],
                  [about |-> 1, attrs |-> [title |-> "Broken", type |-> ""]] >>,
     seqs |-> << [about |-> root, li |-> <<3, 1>>] >>]

RdfInputs == {NoRdf, RdfGood, RdfBad}

\* scrapbook.rdf as a file
RdfFile(r) ==
    IF r.none THEN <<>>
    ELSE (RdfPath :> File(6, [kind |-> "rdf", parses |-> TRUE, items |-> r.items,
                              seqs |-> r.seqs]))

\* tree/meta.js and tree/toc.js as files
Shard(keys, val) == File(6, [kind |-> "js", parses |-> TRUE, keys |-> keys, val |-> val])

\* inputData.files for the profiles prof (item id -> profile) and the TOC t
InputFiles(prof, t) ==
    LET dataPaths == {Path("data", "", i, n) : i \in ItemIds, n \in {"/index.html", ".html", "/unknown.txt", "/index.dat"}}
        present == {p \in dataPaths : p.name \in DOMAIN ItemFiles(p.id, prof[p.id])}
        data == [p \in present |-> ItemFiles(p.id, prof[p.id])[p.name]]
        jsIds == {i \in ItemIds : HasJsEntry(prof[i])}
        metaJs == IF jsIds = {} THEN <<>>
                  ELSE (ShardPath("meta", 0) :>
                          Shard(SortAsc(jsIds), [i \in jsIds |-> JsEntry(i, prof[i])]))
        tocJs == IF t.none THEN <<>> ELSE (ShardPath("toc", 0) :> Shard(t.keys, t.val))
    IN  data @@ metaJs @@ tocJs

\* import() was called directly, no handler of the page is running
NoHost ==
    [via |-> "none", listening |-> TRUE, pending |-> <<>>, imports |-> 0,
     hasValidEntry |-> FALSE]

\* no run has ended yet
NoFirstRun == [emitted |-> NotEmitted, usedClock |-> FALSE, rerun |-> "none"]

InitWith(f) ==
    /\ files = f
    /\ clock = 10
    /\ pc = "start"
    /\ run = 1
    /\ task = <<>>
    /\ urlAccessMap = <<>>
    /\ started = <<>>
    /\ zip = <<>>
    /\ staged = <<>>
    /\ emitted = NotEmitted
    /\ firstRun = NoFirstRun
    /\ usedClock = FALSE
    /\ dataDirs = <<>>
    /\ treeFiles = <<>>
    /\ otherFiles = <<>>
    /\ meta = <<>>
    /\ metaKeys = <<>>
    /\ toc = <<>>
    /\ tocKeys = <<>>
    /\ shard = 0
    /\ queue = <<>>
    /\ log = {}
    /\ trace = <<>>
    /\ host = NoHost

\* further shards of tree/toc.js: a parsed one, an unparsable one, a parsed one,
\* and one above a missing number
TocShards ==
    ShardPath("toc", 1) :> Shard(<<root, 2>>, root :> <<3>> @@ 2 :> <<1>>)
    @@ ShardPath("toc", 2) :> Junk
    @@ ShardPath("toc", 3) :> Shard(<<2, 1>>, 2 :> <<3, 1>> @@ 1 :> <<3>>)
    @@ ShardPath("toc", 5) :> Shard(<<root>>, root :> <<2>>)

\* further shards of tree/meta.js, likewise
MetaShards ==
    ShardPath("meta", 1) :> Shard(<<1, 3>>, 1 :> [title |-> "Later", comment |-> "c1"]
                                            @@ 3 :> [title |-> "Third", type |-> "folder"])
    @@ ShardPath("meta", 2) :> File(4, EmptyBlob)
    @@ ShardPath("meta", 3) :> Shard(<<1>>, 1 :> [title |-> "Last"])
    @@ ShardPath("meta", 5) :> Shard(<<2>>, 2 :> [title |-> "Unread"])

NoShards == <<>>

ShardInputs == {NoShards, TocShards, MetaShards, TocShards @@ MetaShards}

\* the repair family: every profile of the first two items, the first one also
\* with an index.dat, with every TOC or with a legacy store; and stores of
\* several shards, also next to a legacy store, for a few profiles
InitRepair ==
    \E prof \in [ItemIds -> Profiles \cup LegacyProfiles], t \in TocInputs, r \in RdfInputs,
       x \in ShardInputs :
       /\ prof[2] \in Profiles
       /\ prof[3] \in FewProfiles
       /\ \/ r.none
          \/ t.none
          \/ x # NoShards /\ t.keys \in {<<root>>, <<root, 1>>}
       /\ \/ x = NoShards
          \/ /\ prof[1] \in {"known", "absent"}
             /\ prof[2] \in {"known", "folder"}
             /\ prof[3] = "absent"
       /\ InitWith(RdfFile(r) @@ InputFiles(prof, t) @@ x)
       /\ net = <<>>
       /\ options = [autoDownload |-> FALSE, folderMatches |-> FALSE]

\* what the network answers for http://h/a.png
ImageA == [ok |-> TRUE, mime |-> "image/png", bytes |-> "imgA"]

\* the environments of a run: the answers of the network, the options, the
\* object of tree/toc.js, and the files below tree/ besides meta.js and toc.js
Envs ==
    { [net |-> ("http://h/a.png" :> ImageA
                @@ "http://h/b" :> [ok |-> TRUE, mime |-> "image/x-icon", bytes |-> "imgB"]),
       options |-> [autoDownload |-> FALSE, folderMatches |-> TRUE],
       toc |-> NoToc,
       tree |-> <<>>],
      [net |-> ("http://h/a.png" :> ImageA
                @@ "http://h/b" :> [ok |-> FALSE, mime |-> "", bytes |-> ""]),
       options |-> [autoDownload |-> TRUE, folderMatches |-> TRUE],
       toc |-> TocOf(<<root>>, root :> <<1, 2>>),
       tree |-> (TreePath("favicon", "old.png") :> File(4, Blob("old"))
                 @@ TreePath("favicon", sha1("imgA") \o ".png") :> File(4, Blob("imgA"))
                 @@ TreePath("icon", "item.png") :> File(4, Blob("resources/item.png"))
                 @@ TreePath("", "map.html") :> File(4, generateMapFile(BookTitle))
                 @@ ShardPath("meta", 1) :> Junk
                 @@ ShardPath("meta", 2) :> Shard(<<1>>, 1 :> [comment |-> "c2"])
                 @@ ShardPath("toc", 1) :> Junk
                 @@ ShardPath("toc", 2) :> Shard(<<root>>, root :> <<2, 1>>))],
      [net |-> ("http://h/a.png" :> ImageA
                @@ "http://h/b" :> [ok |-> TRUE, mime |-> "text/html", bytes |-> "page"]),
       options |-> [autoDownload |-> TRUE, folderMatches |-> FALSE],
       toc |-> NoToc,
       tree |-> (TreePath("favicon", sha1("imgA") \o ".png") :> File(4, EmptyBlob)
                 @@ TreePath("favicon", "lost.png") :> File(4, Blob("lost"))
                 @@ TreePath("", "frame.html") :> File(4, generateFrameFile("old"))
                 @@ ShardPath("toc", 1) :> File(4, EmptyBlob)
                 @@ ShardPath("toc", 2) :> Junk
                 @@ ShardPath("meta", 2) :> Junk)] }

\* the profiles of the three items in the family of the whole pipeline
PipelineProfiles ==
    {prof \in [ItemIds -> Profiles \cup IconProfiles] :
        /\ prof[1] \in {"iconA", "new", "hint2"}
        /\ prof[2] \in {"iconA2", "iconB", "iconData", "iconCached", "folder", "bookmark"}
        /\ \/ prof[3] = "absent"
           \/ prof[3] = "iconA" /\ prof[1] = "iconA" /\ prof[2] = "iconA2"
           \/ prof[3] = "iconB" /\ prof[2] = "iconB"}

\* a legacy store that lists item 1 alone
RdfItems == [RdfGood EXCEPT !.seqs = << [about |-> root, li |-> <<1>>] >>]

\* a shard whose entry carries its own id and an exported hint
HintShard == ShardPath("meta", 1) :> Shard(<<2>>, 2 :> [id |-> 2, exported |-> 5])

\* entries of every source: item 1 of scrapbook.rdf and of an index.dat, item 2
\* of the shards, item 3 of a document with a folder hint
SourceProfiles ==
    {prof \in [ItemIds -> Profiles \cup LegacyProfiles] :
        /\ prof[1] \in {"legacy", "legacyHtm"}
        /\ prof[2] \in {"folder", "known"}
        /\ prof[3] \in {"hint2", "hint1"}}

InitSources ==
    \E prof \in SourceProfiles, env \in Envs :
       /\ env.tree = <<>>
       /\ InitWith(RdfFile(RdfItems) @@ InputFiles(prof, NoToc) @@ HintShard)
       /\ net = env.net
       /\ options = env.options

InitPipeline ==
    \E prof \in PipelineProfiles, env \in Envs :
       /\ InitWith(env.tree @@ InputFiles(prof, env.toc))
       /\ net = env.net
       /\ options = env.options

Init == InitPipeline \/ InitSources

NextRepair ==
    \/ ImportStart
    \/ ImportRdf
    \/ ImportMeta
    \/ ImportMetaShard
    \/ ImportToc
    \/ ImportTocShard
    \/ ImportData
    \/ ImportDataItem
    \/ FixMetaAndToc

SpecRepair == InitRepair /\ [][NextRepair]_vars

-----------------------------------------------------------------------------
(* A second run of import() after the first one has ended *)

\* the collection after the emitted files were written into it at time now
Overlaid(f, out, now) == Assign(f, [p \in DOMAIN out |-> File(now, out[p])])

\* the operator starts import() again, later, on the input given as f
Rerun(f, kind) ==
    /\ pc = "done"
    /\ run = 1
    /\ clock < MaxClock
    /\ run' = 2
    /\ firstRun' = [emitted |-> emitted, usedClock |-> usedClock, rerun |-> kind]
    /\ files' = f
    /\ clock' = clock + 1
    /\ pc' = "start"
    /\ task' = <<>>
    /\ urlAccessMap' = <<>>
    /\ started' = <<>>
    /\ zip' = <<>>
    /\ staged' = <<>>
    /\ emitted' = NotEmitted
    /\ usedClock' = FALSE
    /\ dataDirs' = <<>>
    /\ treeFiles' = <<>>
    /\ otherFiles' = <<>>
    /\ meta' = <<>>
    /\ metaKeys' = <<>>
    /\ toc' = <<>>
    /\ tocKeys' = <<>>
    /\ shard' = 0
    /\ queue' = <<>>
    /\ log' = {}
    /\ trace' = <<>>
    /\ UNCHANGED <<net, options, host>>

\* on the input with the emitted files of the first run written into it
RerunOverlaid == Rerun(Overlaid(files, emitted.files, clock), "overlaid")

\* on the very same input
RerunSame == Rerun(files, "same")

Next ==
    \/ ImportStart
    \/ ImportRdf
    \/ ImportMeta
    \/ ImportMetaShard
    \/ ImportToc
    \/ ImportTocShard
    \/ ImportData
    \/ ImportDataItem
    \/ FixMetaAndToc
    \/ FavStart
    \/ FavRead
    \/ FavLookup
    \/ FavFetch
    \/ FavFetched
    \/ FavStore
    \/ FavSet
    \/ FavDone
    \/ CheckFavicons
    \/ GenerateFiles
    \/ IncludeResources
    \/ IncludeResource
    \/ CheckSameFiles
    \/ CheckSameFile
    \/ Emit
    \/ Done
    \/ RerunOverlaid
    \/ RerunSame

Spec == Init /\ [][Next]_vars

-----------------------------------------------------------------------------
(* The page around import(): loadInputFiles, loadZipFile, loadInputDir and   *)
(* loadDrop (lines 50-390).  An offered input is [kind, name, id, valid,    *)
(* topDir, entries]: a zip file or a directory, its name (for a zip without  *)
(* the extension), the item id that a directory name spells (0 if none),     *)
(* whether JSZip can read it, whether a zip holds the directory entry        *)
(* `${name}/`, and its files in order.  An entry is [lead, tail, file]: the  *)
(* path is the segments of lead followed by tail, a path record whose top    *)
(* is "" when the path continues with the segment of an item id or with a    *)
(* file name.  The paths of a zip are in-zip paths, those of a directory are *)
(* relative to the directory.                                                *)

Entry(lead, tail, file) == [lead |-> lead, tail |-> tail, file |-> file]

\* the segments of lead as a prefix of a path
RECURSIVE Joined(_)
Joined(lead) == IF lead = <<>> THEN "" ELSE Head(lead) \o "/" \o Joined(Tail(lead))

\* the path of an entry as import() tests it
Norm(e) == IF e.lead = <<>> THEN e.tail ELSE [e.tail EXCEPT !.top = Joined(e.lead) \o e.tail.top]

\* path.startsWith('data/')
StartsWithData(path) == path.top = "data"

\* the first segment of the path of an entry, "" for an id or a file name
FirstSegment(e) == IF e.lead = <<>> THEN e.tail.top ELSE Head(e.lead)

\* inZipPath.slice(cut), path.slice(cut)
Cut(e) == [e EXCEPT !.lead = Tail(e.lead)]

\* inputData.files of the entries, the i-th under the path paths[i]; of two
\* files under one path import() keeps the later one
Collected(entries, paths) ==
    LET n == Len(entries)
        last(p) == CHOOSE i \in 1..n : paths[i] = p /\ \A j \in (i + 1)..n : paths[j] # p
    IN  [p \in Range(paths) |-> entries[last(p)].file]

\* loadZipFile (lines 121-136): the root directory is stripped when the zip has
\* the entry `${name}/` and every path starts with it
Stripped(raw) ==
    /\ raw.topDir
    /\ \A i \in 1..Len(raw.entries) :
          raw.entries[i].lead # <<>> /\ Head(raw.entries[i].lead) = raw.name

ZipPath(raw, e) == IF Stripped(raw) THEN Norm(Cut(e)) ELSE Norm(e)

ZipFiles(raw) ==
    Collected(raw.entries, [i \in 1..Len(raw.entries) |-> ZipPath(raw, raw.entries[i])])

\* loadInputDir (lines 195-251): the loop over the files decides once, at the
\* first file that matches one of the patterns
RightDir(e) == FirstSegment(e) \in {"data", "tree"}

WrongName(raw) == raw.name \in {"data", "tree"} \/ raw.id # 0

RECURSIVE IsWrongDir(_, _)
IsWrongDir(raw, entries) ==
    IF entries = <<>> THEN FALSE
    ELSE IF RightDir(Head(entries)) THEN FALSE
    ELSE IF WrongName(raw) THEN TRUE
    ELSE IsWrongDir(raw, Tail(entries))

\* newBase + f.file.webkitRelativePath.slice(newCut): the name of the picked
\* directory is kept, below data/ when it spells an item id
Adjusted(raw, e) ==
    IF raw.id # 0 THEN Path("data", "", raw.id, e.tail.name)
    ELSE [e.tail EXCEPT !.top = raw.name]

DirPath(raw, e) == IF IsWrongDir(raw, raw.entries) THEN Adjusted(raw, e) ELSE Norm(e)

DirFiles(raw) ==
    Collected(raw.entries, [i \in 1..Len(raw.entries) |-> DirPath(raw, raw.entries[i])])

\* loadDrop (lines 302-345): entry.fullPath.slice(cut)
DropFiles(raw) ==
    Collected(raw.entries, [i \in 1..Len(raw.entries) |-> Norm(raw.entries[i])])

\* hasDataDir
HasDataDir(f) == \E p \in DOMAIN f : StartsWithData(p)

\* indexer.import(inputData): every run starts with a fresh scrapbookData and zip
Invoke(f, lines) ==
    /\ files' = f
    /\ log' = log \cup lines \cup {LogLine("Found files", 0, 0)}
    /\ host' = [host EXCEPT !.pending = Tail(host.pending), !.imports = host.imports + 1]
    /\ pc' = "start"
    /\ task' = <<>>
    /\ urlAccessMap' = <<>>
    /\ started' = <<>>
    /\ zip' = <<>>
    /\ staged' = <<>>
    /\ emitted' = NotEmitted
    /\ usedClock' = FALSE
    /\ dataDirs' = <<>>
    /\ treeFiles' = <<>>
    /\ otherFiles' = <<>>
    /\ meta' = <<>>
    /\ metaKeys' = <<>>
    /\ toc' = <<>>
    /\ tocKeys' = <<>>
    /\ shard' = 0
    /\ queue' = <<>>
    /\ trace' = <<>>
    /\ UNCHANGED <<net, options, runVars, clock>>

\* the input is skipped with the error msg
Skip(lines, msg) ==
    /\ log' = log \cup lines \cup {ErrorLine(msg, 0, 0), LogLine("", 0, 0)}
    /\ host' = [host EXCEPT !.pending = Tail(host.pending)]
    /\ UNCHANGED <<files, net, options, favVars, outVars, runVars, usedClock, clock, pc,
                   dataDirs, treeFiles, otherFiles, meta, metaKeys, toc, tocKeys, shard,
                   queue, trace>>

\* onDrop, onChangeDir, onChangeFiles and start() (lines 50-74, 98-103)
LoadStart ==
    /\ pc = "idle"
    /\ host.listening
    /\ host.via = "drop" \/ host.pending # <<>>
    /\ host' = [host EXCEPT !.listening = FALSE, !.hasValidEntry = host.pending # <<>>]
    /\ log' = {}
    /\ pc' = "load"
    /\ UNCHANGED <<files, net, options, favVars, outVars, runVars, usedClock, clock, dataDirs,
                   treeFiles, otherFiles, meta, metaKeys, toc, tocKeys, shard, queue, trace>>

\* loadZipFile (lines 111-176), called by loadInputFiles and by loadDrop
LoadZipFile ==
    /\ pc = "load"
    /\ host.via \in {"zip", "drop"}
    /\ host.pending # <<>>
    /\ Head(host.pending).kind = "zip"
    /\ LET raw == Head(host.pending)
           got == {LogLine("Got file", 0, 0), LogLine("Extracting zip content", 0, 0)}
           lines == IF raw.valid /\ Stripped(raw)
                    THEN got \cup {ErrorLine("Stripped root directory path", 0, 0)} ELSE got
       IN  IF ~raw.valid THEN Skip(got, "Skipped invalid zip file")
           ELSE IF ~HasDataDir(ZipFiles(raw))
           THEN Skip(lines, "Skipped invalid zip of ScrapBook folder")
           ELSE Invoke(ZipFiles(raw), lines)

\* loadInputDir (lines 178-268)
LoadInputDir ==
    /\ pc = "load"
    /\ host.via = "dir"
    /\ host.pending # <<>>
    /\ LET raw == Head(host.pending)
           got == {LogLine("Got directory", 0, 0)}
           lines == IF IsWrongDir(raw, raw.entries)
                    THEN got \cup {LogLine("Common ancestor directory name seems incorrect", 0, 0)}
                    ELSE got
       IN  IF ~HasDataDir(DirFiles(raw))
           THEN Skip(lines, "Skipped invalid zip of ScrapBook folder")
           ELSE Invoke(DirFiles(raw), lines)

\* loadDrop (lines 289-390) on an entry that is a directory
LoadDropDir ==
    /\ pc = "load"
    /\ host.via = "drop"
    /\ host.pending # <<>>
    /\ Head(host.pending).kind = "dir"
    /\ LET raw == Head(host.pending)
           got == {LogLine("Got directory", 0, 0), LogLine("Inspecting files", 0, 0)}
       IN  IF ~HasDataDir(DropFiles(raw))
           THEN Skip(got, "Skipped invalid ScrapBook folder")
           ELSE Invoke(DropFiles(raw), got)

\* the promise of import() is settled and the chain of the handler goes on
ImportReturns ==
    /\ pc \in {"done", "aborted"}
    /\ host.via # "none"
    /\ pc' = "load"
    /\ UNCHANGED <<inVars, favVars, outVars, runVars, usedClock, clock, dataDirs, treeFiles,
                   otherFiles, meta, metaKeys, toc, tocKeys, shard, queue, log, trace>>

\* a handler that ends without calling end()
LoadEndDetached ==
    /\ pc = "load"
    /\ host.pending = <<>>
    /\ log' = IF host.via = "drop" /\ ~host.hasValidEntry
              THEN log \cup {ErrorLine("Unexpected error", 0, 0)} ELSE log
    /\ host' = host
    /\ pc' = "idle"
    /\ UNCHANGED <<files, net, options, favVars, outVars, runVars, usedClock, clock, dataDirs,
                   treeFiles, otherFiles, meta, metaKeys, toc, tocKeys, shard, queue, trace>>

\* the end of the chain of the handler and end() (lines 105-109)
LoadEnd ==
    /\ pc = "load"
    /\ host.pending = <<>>
    /\ log' = IF host.via = "drop" /\ ~host.hasValidEntry
              THEN log \cup {ErrorLine("Unexpected error", 0, 0)} ELSE log
    /\ host' = [host EXCEPT !.listening = TRUE]
    /\ pc' = "idle"
    /\ UNCHANGED <<files, net, options, favVars, outVars, runVars, usedClock, clock, dataDirs,
                   treeFiles, otherFiles, meta, metaKeys, toc, tocKeys, shard, queue, trace>>

\* the files f as entries below the directories of lead
Entries(lead, f) ==
    LET paths == SeqOf(DOMAIN f)
    IN  [i \in 1..Len(paths) |-> Entry(lead, paths[i], f[paths[i]])]

\* the files of f below data/ as entries relative to data/
DataEntries(f) ==
    LET paths == SeqOf({p \in DOMAIN f : p.top = "data"})
    IN  [i \in 1..Len(paths) |-> Entry(<<>>, [paths[i] EXCEPT !.top = ""], f[paths[i]])]

\* the files of the folder data/<id>/ of f as entries relative to that folder
ItemEntries(f, id) ==
    LET paths == SeqOf({p \in DOMAIN f : p.top = "data" /\ p.id = id /\ p.name = "/index.html"})
    IN  [i \in 1..Len(paths) |-> Entry(<<>>, Path("", "", 0, paths[i].name), f[paths[i]])]

Offered(kind, name, id, valid, topDir, entries) ==
    [kind |-> kind, name |-> name, id |-> id, valid |-> valid, topDir |-> topDir,
     entries |-> entries]

\* a file directly below data/ whose name has no extension, and a table of contents
NoItemFiles ==
    (Path("data", "", 5, "") :> Junk) @@ (ShardPath("toc", 0) :> Shard(<<root>>, root :> <<>>))

\* a collection without data/
TreeOnlyFiles == (ShardPath("toc", 0) :> Shard(<<root>>, root :> <<>>))

\* the ways in which the collection f is handed to the page
Wrappings ==
    {"zipTop", "zipPlain", "zipOther", "zipBad", "zipTwo", "dirRoot", "dirData", "dirItem",
     "dirParent", "dropRoot", "dropData", "dropZip", "dropNone"}

Offer(w, f) ==
    LET zipTop == Offered("zip", "WSB", 0, TRUE, TRUE, Entries(<<"WSB">>, f))
        zipBad == Offered("zip", "WSB", 0, FALSE, FALSE, <<>>)
        dirRoot == Offered("dir", "WSB", 0, TRUE, FALSE, Entries(<<>>, f))
        dirData == Offered("dir", "data", 0, TRUE, FALSE, DataEntries(f))
    IN  CASE w = "zipTop" -> [via |-> "zip", pending |-> <<zipTop>>]
          [] w = "zipPlain" ->
               [via |-> "zip",
                pending |-> <<Offered("zip", "WSB", 0, TRUE, FALSE, Entries(<<>>, f))>>]
          [] w = "zipOther" ->
               [via |-> "zip",
                pending |-> <<Offered("zip", "other", 0, TRUE, FALSE, Entries(<<"WSB">>, f))>>]
          [] w = "zipBad" -> [via |-> "zip", pending |-> <<zipBad>>]
          [] w = "zipTwo" -> [via |-> "zip", pending |-> <<zipBad, zipTop>>]
          [] w = "dirRoot" -> [via |-> "dir", pending |-> <<dirRoot>>]
          [] w = "dirData" -> [via |-> "dir", pending |-> <<dirData>>]
          [] w = "dirItem" ->
               [via |-> "dir",
                pending |-> <<Offered("dir", "1", 1, TRUE, FALSE, ItemEntries(f, 1))>>]
          [] w = "dirParent" ->
               [via |-> "dir",
                pending |-> <<Offered("dir", "parent", 0, TRUE, FALSE, Entries(<<"WSB">>, f))>>]
          [] w = "dropRoot" -> [via |-> "drop", pending |-> <<dirRoot>>]
          [] w = "dropData" -> [via |-> "drop", pending |-> <<dirData>>]
          [] w = "dropZip" -> [via |-> "drop", pending |-> <<zipTop, dirRoot>>]
          [] w = "dropNone" -> [via |-> "drop", pending |-> <<>>]

\* the profiles of the three items in the family of the page
LoadProfiles ==
    {prof \in PipelineProfiles : prof[1] = "iconA" /\ prof[3] = "absent"}

\* a collection in which the index document of item 1 declares the id of item 2
ConflictFiles ==
    InputFiles([i \in ItemIds |-> CASE i = 1 -> "newId" [] i = 2 -> "new" [] OTHER -> "absent"],
               NoToc)

\* the collections handed to the page, each with its environment
Collections ==
    {[files |-> env.tree @@ InputFiles(prof, env.toc), env |-> env] :
        prof \in LoadProfiles, env \in Envs}
    \cup {[files |-> f, env |-> env] : f \in {NoItemFiles, TreeOnlyFiles, ConflictFiles},
                                       env \in Envs}

\* the page is idle and an input is handed to it
InitLoad ==
    \E c \in Collections, w \in Wrappings :
       /\ host = [via |-> Offer(w, c.files).via, listening |-> TRUE,
                  pending |-> Offer(w, c.files).pending, imports |-> 0,
                  hasValidEntry |-> FALSE]
       /\ net = c.env.net
       /\ options = c.env.options
       /\ files = <<>>
       /\ clock = 10
       /\ pc = "idle"
       /\ run = 1
       /\ task = <<>>
       /\ urlAccessMap = <<>>
       /\ started = <<>>
       /\ zip = <<>>
       /\ staged = <<>>
       /\ emitted = NotEmitted
       /\ firstRun = NoFirstRun
       /\ usedClock = FALSE
       /\ dataDirs = <<>>
       /\ treeFiles = <<>>
       /\ otherFiles = <<>>
       /\ meta = <<>>
       /\ metaKeys = <<>>
       /\ toc = <<>>
       /\ tocKeys = <<>>
       /\ shard = 0
       /\ queue = <<>>
       /\ log = {}
       /\ trace = <<>>

NextLoad ==
    \/ LoadStart
    \/ LoadZipFile
    \/ LoadInputDir
    \/ LoadDropDir
    \/ ImportReturns
    \/ LoadEnd
    \/ ImportStart
    \/ ImportRdf
    \/ ImportMeta
    \/ ImportMetaShard
    \/ ImportToc
    \/ ImportTocShard
    \/ ImportData
    \/ ImportDataItem
    \/ FixMetaAndToc
    \/ FavStart
    \/ FavRead
    \/ FavLookup
    \/ FavFetch
    \/ FavFetched
    \/ FavStore
    \/ FavSet
    \/ FavDone
    \/ CheckFavicons
    \/ GenerateFiles
    \/ IncludeResources
    \/ IncludeResource
    \/ CheckSameFiles
    \/ CheckSameFile
    \/ Emit
    \/ Done

SpecLoad == InitLoad /\ [][NextLoad]_vars

-----------------------------------------------------------------------------
(* Claims about the repair passes *)

\* the repair passes have run to their end
Repaired == pc = "favicon"

\* how often id occurs in the child list s
RECURSIVE Occurs(_, _)
Occurs(s, id) ==
    IF s = <<>> THEN 0 ELSE (IF Head(s) = id THEN 1 ELSE 0) + Occurs(Tail(s), id)

\* how often id occurs as a child in all lists of t together
RECURSIVE CountIn(_, _, _)
CountIn(t, K, id) ==
    IF K = {} THEN 0
    ELSE LET k == CHOOSE x \in K : TRUE
         IN  Occurs(t[k], id) + CountIn(t, K \ {k}, id)

ChildCount(id) == CountIn(toc, DOMAIN toc, id)

\* C1: after the repair passes every identifier in a child list of the TOC is
\* a key of the metadata
TocChildrenHaveMeta ==
    Repaired => \A k \in DOMAIN toc : \A c \in Range(toc[k]) : c \in DOMAIN meta

\* C1 witness: the passes removed a reference without an entry and kept others
TocChildrenWitness ==
    /\ Repaired
    /\ \E l \in log : l.msg = "Removed TOC reference"
    /\ \E k \in DOMAIN toc : Len(toc[k]) >= 2

\* C2 as stated: every surviving entry other than root and hidden is a child
\* exactly once
TocMembershipExactlyOnce ==
    Repaired => \A id \in DOMAIN meta \ Reserved : ChildCount(id) = 1

\* the ids that orphan re-insertion put into the TOC: the orphans and the
\* folders it synthesized for them
Inserted == {trace[i].id : i \in 1..Len(trace)}
                \cup UNION {Range(trace[i].created) : i \in 1..Len(trace)}

\* C2 as amended: every surviving entry other than root and hidden is a child
\* at least once, and an entry that orphan re-insertion put into the TOC (an
\* orphan or a synthesized folder) is a child exactly once
TocMembership ==
    Repaired => \A id \in DOMAIN meta \ Reserved :
                   /\ ChildCount(id) >= 1
                   /\ id \in Inserted => ChildCount(id) = 1

\* C2 witness: an orphan under a synthesized folder, next to an entry that the
\* input TOC lists twice
TocMembershipWitness ==
    /\ Repaired
    /\ \E i \in 1..Len(trace) : trace[i].created # <<>> /\ ChildCount(trace[i].id) = 1
    /\ \E id \in DOMAIN meta \ Reserved : ChildCount(id) = 2

\* the fields of entry m keep their values in entry n
SameEntry(n, m) == \A f \in DOMAIN m \ Transient : Truthy(m, f) => Has(n, f) /\ n[f] = m[f]

\* entry A declares the unused id B and has data files
DeclaresFree(A, B) ==
    /\ A \in DOMAIN meta /\ B = NumOr(meta[A], "id")
    /\ B # 0 /\ B # A /\ B \notin DOMAIN meta
    /\ A \in DOMAIN dataDirs

\* the entry and the data files of A are under B after the step
MovedTo(A, B) ==
    /\ B \in DOMAIN meta' /\ SameEntry(meta'[B], meta[A])
    /\ B \in DOMAIN dataDirs' /\ dataDirs'[B] = dataDirs[A]
    /\ LogLine("Tweaked", A, B) \in log'

InputNames(id) == {p.name : p \in {q \in DOMAIN files : IsItemFile(q) /\ q.id = id}}

\* the data folder of id has files, but no index candidate and no index.dat
NoCandidate(id) ==
    /\ InputNames(id) # {}
    /\ InputNames(id) \cap (Range(IndexCandidates) \cup {"/index.dat"}) = {}

\* some metadata source of the input names id: tree/meta*.js or scrapbook.rdf
\* has an entry for it, or an index document or an entry declares it as its id
Named(id) ==
    \/ \E p \in DOMAIN files :
          /\ p.top = "tree" /\ files[p].content.kind = "js"
          /\ \E k \in DOMAIN files[p].content.val :
                \/ k = id /\ p.name = "meta.js"
                \/ p.name = "meta.js" /\ NumOr(files[p].content.val[k], "id") = id
    \/ \E p \in DOMAIN files :
          /\ p.top = "data" /\ files[p].content.kind = "html"
          /\ NumOr(files[p].content.attrs, "id") = id
    \/ /\ RdfPath \in DOMAIN files
       /\ \E i \in 1..Len(files[RdfPath].content.items) :
             \/ files[RdfPath].content.items[i].about = id
             \/ NumOr(files[RdfPath].content.items[i].attrs, "id") = id

\* C8: an item whose data folder holds no index candidate and that no
\* metadata source names is no key of the final metadata and in no child list
NoIndexNoEntry ==
    Repaired => \A id \in ItemIds :
                   NoCandidate(id) /\ ~Named(id) =>
                      /\ id \notin DOMAIN meta
                      /\ \A k \in DOMAIN toc : id \notin Range(toc[k])

\* C8 witness: such a folder, listed in the input TOC, next to surviving entries
NoIndexNoEntryWitness ==
    /\ Repaired
    /\ \E id \in ItemIds :
          /\ NoCandidate(id) /\ ~Named(id)
          /\ ErrorLine("Removed TOC reference", root, id) \in log
    /\ DOMAIN meta # {}

\* C9 as stated: a data folder of the input that has no entry in the final
\* metadata is named by a line of the log
NoSilentDrop ==
    Repaired => \A id \in ItemIds :
                   InputNames(id) # {} /\ id \notin DOMAIN meta =>
                      \E l \in log : l.id = id \/ l.ref = id

\* C10: an orphan with the hint Work<TAB>Projects, inserted when root has no
\* child titled Work, gets two new folders with distinct fresh ids, Work
\* appended to root, Projects the child of Work, and the orphan the child of
\* Projects and of nothing else
ScenarioD ==
    Repaired => \A i \in 1..Len(trace) :
        LET e == trace[i]
        IN  e.hint = <<"Work", TAB, "Projects">> /\ "Work" \notin e.rootTitles =>
              /\ Len(e.created) = 2
              /\ e.created[1] # e.created[2]
              /\ Range(e.created) \cap e.metas = {}
              /\ Range(e.created) \subseteq DOMAIN meta
              /\ meta[e.created[1]].type = "folder" /\ meta[e.created[1]].title = "Work"
              /\ meta[e.created[2]].type = "folder" /\ meta[e.created[2]].title = "Projects"
              /\ e.rootAfter[Len(e.rootAfter)] = e.created[1]
              /\ Occurs(toc[root], e.created[1]) = 1 /\ ChildCount(e.created[1]) = 1
              /\ Head(toc[e.created[1]]) = e.created[2]
              /\ ChildCount(e.created[2]) = 1
              /\ Occurs(toc[e.created[2]], e.id) = 1 /\ ChildCount(e.id) = 1

\* C10 witness: Scenario D happened, with the clock standing still meanwhile
ScenarioDWitness ==
    /\ Repaired
    /\ \E i \in 1..Len(trace) :
          /\ trace[i].hint = <<"Work", TAB, "Projects">>
          /\ "Work" \notin trace[i].rootTitles
          /\ Len(trace[i].created) = 2
          /\ trace[i].created[2] = trace[i].created[1] + 1
          /\ clock = 10

-----------------------------------------------------------------------------
(* Claims about the whole pipeline *)

UpToDate == LogLine("Current files are already up-to-date", 0, 0)

\* the second run, of the given kind, has ended
SecondDone(kind) == run = 2 /\ firstRun.rerun = kind /\ pc = "done"

\* C3 as stated: a second run on the input with the files of the first run
\* overlaid stages no file for output and reports that the files are up to date
Idempotence ==
    SecondDone("overlaid") => DOMAIN zip = {} /\ emitted = NotEmitted /\ UpToDate \in log

\* C4 as stated: a second run on the same input at a later wall-clock time emits
\* the same files with the same content as the first
Determinism == SecondDone("same") => emitted = firstRun.emitted

\* C4 as amended: the two runs emit the same files with the same content when
\* neither run reads the clock, that is when no modify timestamp is missing and
\* no folder is synthesized
DeterminismWithoutClock ==
    SecondDone("same") /\ ~usedClock /\ ~firstRun.usedClock => emitted = firstRun.emitted

\* C4 witness: two runs that did not read the clock, fetched a favicon and
\* emitted files
DeterminismWitness ==
    /\ SecondDone("same") /\ ~usedClock /\ ~firstRun.usedClock
    /\ emitted.how # "nothing"
    /\ \E p \in DOMAIN emitted.files : p.sub = "favicon"
    /\ clock # 10

\* the differencer has run
Compared2 == pc \in {"emit", "finish", "done"}

\* C5: a path under tree/ that was staged with the content of the previous file
\* of the same path is not in the output and has no backup staged, and a path
\* with a previous version is in the output only with a different content
DiffMinimality ==
    Compared2 =>
       /\ \A p \in DOMAIN staged :
             p.top = "tree" /\ Has(treeFiles, p) /\ staged[p] = treeFiles[p].content =>
                /\ ~Has(zip, p) /\ ~Has(zip, BakPath(p))
                /\ pc = "done" => ~Has(emitted.files, p) /\ ~Has(emitted.files, BakPath(p))
       /\ \A p \in DOMAIN zip :
             p.top = "tree" /\ Has(treeFiles, p) => zip[p] # treeFiles[p].content

\* C5 witness: one staged path was dropped as unchanged, another one is emitted
\* with a backup of its previous version
DiffMinimalityWitness ==
    /\ pc = "done"
    /\ \E p \in DOMAIN staged : Has(treeFiles, p) /\ staged[p] = treeFiles[p].content
    /\ \E p \in DOMAIN emitted.files :
          /\ Has(treeFiles, p)
          /\ Has(emitted.files, BakPath(p))
          /\ emitted.files[BakPath(p)] = treeFiles[p].content

\* the tasks that hold the icon source url and have its result
Holders(url) == {id \in DOMAIN task : task[id].url = url /\ task[id].at \in {"set", "done"}}

\* C6: the fetch or decode of an icon source starts at most once in a run,
\* whatever the order of the callbacks of the tasks, and the entries that hold
\* one source get, on success, icons that point at the one cache file of its
\* result
FaviconDedup ==
    /\ \A url \in DOMAIN started : started[url] <= 1
    /\ \A url \in DOMAIN urlAccessMap :
          urlAccessMap[url].state = "ok" =>
             \A id \in Holders(url) :
                CachedPath(task[id].out) = TreePath("favicon", urlAccessMap[url].file.name)

\* C6 witness: two entries held one source, one fetch was started for it, and
\* both icons point at its cache file
FaviconDedupWitness ==
    \E url \in DOMAIN urlAccessMap :
       /\ Has(started, url) /\ started[url] = 1
       /\ urlAccessMap[url].state = "ok"
       /\ Cardinality(Holders(url)) >= 2
       /\ \A id \in Holders(url) : task[id].at = "done" /\ meta[id].icon = task[id].out
       /\ \E i, j \in Holders(url) : task[i].out # task[j].out

-----------------------------------------------------------------------------
(* Claims about the page around import() *)

\* the files that the handler of the page collects from the offered input raw
Acquired(raw) ==
    IF raw.kind = "zip" THEN (IF raw.valid THEN ZipFiles(raw) ELSE <<>>)
    ELSE IF host.via = "dir" THEN DirFiles(raw)
    ELSE DropFiles(raw)

\* the offered input has no per-item data file
NoItemFile(raw) == \A p \in DOMAIN Acquired(raw) : ~IsItemFile(p)

\* the errors with which an input is rejected
Rejections ==
    {"Skipped invalid zip file", "Skipped invalid zip of ScrapBook folder",
     "Skipped invalid ScrapBook folder"}

\* C11: on every acquisition path, an input without a per-item data file
\* (data/<id>/... or data/<id>.<ext>) is rejected with a reported error:
\* import() is not invoked for it, nothing is emitted, and the page goes on
\* with what follows
InputRejection ==
    [][(pc = "load" /\ host.pending # <<>> /\ NoItemFile(Head(host.pending)))
          => /\ pc' = "load"
             /\ host'.imports = host.imports
             /\ \E l \in log' : l.sev = "error" /\ l.msg \in Rejections
             /\ emitted' = emitted]_vars

\* the stages of import() that come before the emit stage
EarlierStages ==
    {"start", "rdf", "meta", "metaShard", "toc", "tocShard", "data", "dataItem", "fix",
     "favicon", "favTasks", "sweep", "generate", "resources", "resource", "diff", "diffFile"}

\* the top-level catch of import() reported an error in this step
Caught == \E l \in log' \ log : l.sev = "error" /\ l.msg = "Unexpected error"

\* every stage before the emit stage has completed
StagesCompleted ==
    /\ queue = <<>>
    /\ \A id \in DOMAIN task : task[id].at = "done"
    /\ \A id \in DOMAIN meta : Has(task, id)
    /\ \A p \in DOMAIN zip : Has(staged, p) \/ \E q \in DOMAIN staged : p = BakPath(q)
    /\ {ShardPath("meta", 0), ShardPath("toc", 0), TreePath("", "map.html"),
        TreePath("", "frame.html")} \subseteq DOMAIN staged

\* the state part of C12
NoOutputBeforeEmit ==
    /\ pc \in EarlierStages \cup {"emit", "aborted"} => emitted = NotEmitted
    /\ pc = "emit" => StagesCompleted
    /\ pc = "aborted" => \E l \in log : l.sev = "error" /\ l.msg = "Unexpected error"

\* the step part of C12
NoOutputAfterError ==
    /\ emitted' # emitted /\ emitted' # NotEmitted => pc = "emit"
    /\ pc' = "emit" /\ pc # "emit" => pc \in {"diff", "diffFile"}
    /\ pc \in EarlierStages /\ Caught => pc' = "aborted"
    /\ pc = "aborted" => pc' \in {"aborted", "load"} /\ emitted' = NotEmitted

\* C12: the emit stage of import() starts only after every earlier stage has
\* completed, and nothing is downloaded or zipped before it; when an earlier
\* stage throws an unexpected error, the error is reported, the rest of the
\* run is abandoned and the run emits nothing
NoPartialOutput == [](NoOutputBeforeEmit) /\ [][NoOutputAfterError]_vars

\* C12 witness: a run was abandoned with a reported error after metadata had
\* been collected, and nothing was emitted
NoPartialOutputWitness ==
    /\ pc = "aborted"
    /\ DOMAIN meta # {}
    /\ emitted = NotEmitted
    /\ \E l \in log : l.sev = "error" /\ l.msg = "Unexpected error"

-----------------------------------------------------------------------------
(* Claims about an entry whose declared id is occupied *)

\* the entry under x declares another id, and an entry exists under that id
DeclaresOccupied(x) ==
    /\ NumOr(meta[x], "id") # 0
    /\ NumOr(meta[x], "id") # x
    /\ Has(meta, NumOr(meta[x], "id"))

\* the entry under the declared id of x points at the index artifact of x
SameArtifact(x) ==
    LET y == NumOr(meta[x], "id")
    IN  Has(meta[x], "index") /\ Has(meta[y], "index") /\ meta[y].index = meta[x].index

\* the repair handler is about to run, and the entry under x is the only one
\* that declares an id other than its own
OnlyDeclaring(x) ==
    /\ pc = "fix"
    /\ Has(meta, x)
    /\ DeclaresOccupied(x)
    /\ \A z \in DOMAIN meta \ {x} : NumOr(meta[z], "id") \in {0, z}

\* the field fallback was applied to the entry m
FieldsFixed(m) ==
    /\ {"type", "source", "icon", "comment", "title"} \subseteq DOMAIN m
    /\ Truthy(m, "modify") /\ Truthy(m, "create")

\* the passes on the TOC and the stripping of the transient fields have run
PassesRan(metas, t) ==
    /\ \A k \in DOMAIN t : \A i \in 1..Len(t[k]) : Has(metas, t[k][i])
    /\ \A k \in DOMAIN t : k \in Reserved \/ Has(metas, k)
    /\ \A z \in DOMAIN metas : DOMAIN metas[z] \cap Transient = {}

\* C13: when the entry under X declares the id Y, an entry exists under Y and
\* points at the same index artifact, the repair handler moves the data-file
\* grouping of X to Y and writes a log line, and does everything else as usual:
\* every other entry gets its field fallback, the TOC is pruned, orphans are
\* inserted and the transient fields are stripped
SelfDuplicateNoOp ==
    [][\A x \in DOMAIN meta :
          OnlyDeclaring(x) /\ SameArtifact(x)
             => /\ pc' = "favicon"
                /\ Has(dataDirs, x) =>
                      /\ ~Has(dataDirs', x)
                      /\ Has(dataDirs', meta[x].id) /\ dataDirs'[meta[x].id] = dataDirs[x]
                /\ \E l \in log' \ log : l.sev = "log" /\ l.id = x
                /\ \A z \in DOMAIN meta' \ {x} : FieldsFixed(meta'[z])
                /\ PassesRan([z \in DOMAIN meta' \ {x} |-> meta'[z]], toc')]_vars

\* C14: when the entry under X declares the id Y, and an entry exists under Y
\* that points at a different index artifact, the entry under X is removed with
\* a reported error, the entry under Y keeps its index and its title, and the
\* run goes on with the entries that follow
RetargetConflict ==
    [][\A x \in DOMAIN meta :
          OnlyDeclaring(x) /\ ~SameArtifact(x)
             => /\ pc' = "favicon"
                /\ ~Has(meta', x)
                /\ \E l \in log' \ log : l.sev = "error" /\ l.id = x
                /\ LET y == meta[x].id
                   IN  Has(meta', y) =>
                          /\ Has(meta[y], "index") =>
                                Has(meta'[y], "index") /\ meta'[y].index = meta[y].index
                          /\ Truthy(meta[y], "title") => meta'[y].title = meta[y].title]_vars

-----------------------------------------------------------------------------
(* Claims about the entries that the repair pass keeps *)

\* the entry m is an item with data files: no folder, separator or bookmark
HoldsData(m) == ~(Has(m, "type") /\ m.type \in Containers)

\* the repair handler runs to its end in this step
RepairStep == pc = "fix" /\ pc' = "favicon"

\* C15: after the metadata repair pass every surviving entry whose type is not
\* 'folder', 'separator' or 'bookmark' has a data-file grouping under its own
\* id, and for an entry of such a type that had no grouping an error is
\* reported (the entry is removed)
SurvivorsHaveData ==
    [][RepairStep =>
          /\ \A id \in DOMAIN meta' : HoldsData(meta'[id]) => Has(dataDirs', id)
          /\ \A id \in DOMAIN meta :
                HoldsData(meta[id]) /\ ~Truthy(meta[id], "id") /\ ~Has(dataDirs, id)
                   => /\ ErrorLine("Missing data files", id, 0) \in log'
                      /\ Has(meta', id) => Has(dataDirs', id)]_vars

\* C15 witness: the pass has ended, an entry without data files was removed
\* with an error, and an item with data files survives
SurvivorsHaveDataWitness ==
    /\ pc = "favicon"
    /\ \E id \in ItemIds : ErrorLine("Missing data files", id, 0) \in log /\ ~Has(meta, id)
    /\ \E id \in DOMAIN meta : HoldsData(meta[id]) /\ Has(dataDirs, id)

\* C16: in the final metadata every entry whose type is not 'folder',
\* 'separator' or 'bookmark' has an index path that names a file of the
\* entry's own data-file grouping; an entry without such a file is not kept
DataFileInvariant ==
    pc = "favicon" =>
       \A id \in DOMAIN meta :
          HoldsData(meta[id]) =>
             /\ Has(dataDirs, id)
             /\ Has(meta[id], "index")
             /\ meta[id].index \in DOMAIN dataDirs[id]

-----------------------------------------------------------------------------
(* Claims about the generated tree/meta.js *)

\* the entry m has every field that the field fallback defines
FieldsComplete(m) ==
    /\ {"type", "source", "icon", "comment"} \subseteq DOMAIN m
    /\ Truthy(m, "modify")
    /\ Truthy(m, "create")

\* the object serialized into tree/meta.js has complete entries
SerializedComplete ==
    pc = "resources" =>
       \A id \in DOMAIN zip[ShardPath("meta", 0)].val :
          FieldsComplete(zip[ShardPath("meta", 0)].val[id])

\* an entry that had no create before the repair handler has its modify as create
CreateFromModify ==
    RepairStep =>
       \A id \in DOMAIN meta \cap DOMAIN meta' :
          ~Truthy(meta[id], "create") /\ NumOr(meta[id], "id") \in {0, id}
             => meta'[id].create = meta'[id].modify

\* C17: every metadata entry that is serialized into tree/meta.js, the folder
\* entries synthesized during orphan re-insertion included, has type, source,
\* icon and comment defined as strings, a non-empty modify and a non-empty
\* create; a create that was empty in the sources equals modify
FieldCompleteness == [](SerializedComplete) /\ [][CreateFromModify]_vars

-----------------------------------------------------------------------------
(* Claims about the metadata synthesizer, the handler of one data folder *)

\* the synthesizer handles the data folder of id in this step
Synthesizes(id) == pc = "dataItem" /\ queue # <<>> /\ Head(queue) = id

\* the index artifact that the synthesizer finds for id
FoundIndex(id) == getIndexPath(dataDirs[id], id)

\* C18: for every item that the synthesizer processes and finds an index
\* artifact for, the item's modify is afterwards at least the canonical
\* timestamp of the last-modified time of the index file, also when the item
\* had no modify before (a fresh default entry); a later modify is not lowered
ModifyRaisedToFileTime ==
    [][\A id \in DOMAIN dataDirs :
          Synthesizes(id) /\ FoundIndex(id) # NoIndex
             => /\ Has(meta', id)
                /\ Truthy(meta'[id], "modify")
                /\ meta'[id].modify >= dateToId(dataDirs[id][FoundIndex(id)].lastModified)]_vars

\* the data folder of id holds the legacy sidecar <id>/index.dat
HasSidecar(id) == DataPath(id, "/index.dat") \in DOMAIN dataDirs[id]

\* the text of the sidecar of id
Sidecar(id) == dataDirs[id][DataPath(id, "/index.dat")].content

\* after this step the entry of id holds what the sidecar says: it was imported
SidecarImported(id) ==
    /\ Has(meta', id)
    /\ Has(meta'[id], "title")
    /\ meta'[id].title = DatFields(id).title

\* the index document of id was opened in this step
DocumentOpened(id) == LogLine("Generating metadata entry", id, 0) \in log'

\* C19 as stated: the sidecar <id>/index.dat is imported exactly when it is
\* present and the discovered index artifact is not of the plain
\* <id>/index.html form; when it is imported the index document is not opened
SidecarUnlessPlainIndex ==
    [][\A id \in DOMAIN dataDirs :
          Synthesizes(id) =>
             /\ SidecarImported(id) <=>
                   (HasSidecar(id) /\ FoundIndex(id).name # "/index.html")
             /\ SidecarImported(id) => ~DocumentOpened(id)]_vars

\* C19 as amended: the sidecar <id>/index.dat is imported exactly when it is
\* present, the item has no index artifact or one of the plain <id>/index.html
\* form, and the text has at least two lines and an icon field; when it is
\* imported the index document is not opened, otherwise an index document
\* that was found is opened
SidecarWithPlainIndex ==
    [][\A id \in DOMAIN dataDirs :
          Synthesizes(id) =>
             /\ SidecarImported(id) <=>
                   /\ HasSidecar(id)
                   /\ FoundIndex(id) = NoIndex \/ FoundIndex(id).name = "/index.html"
                   /\ Sidecar(id).lines >= 2
                   /\ Has(Sidecar(id).fields, "icon")
             /\ SidecarImported(id) => ~DocumentOpened(id)
             /\ ~SidecarImported(id) /\ FoundIndex(id) # NoIndex => DocumentOpened(id)]_vars

\* C19 witness: the sidecar of an item with the index <id>/index.html was
\* imported, and the index document was not opened
SidecarWitness ==
    /\ pc \in {"dataItem", "fix"}
    /\ \E id \in DOMAIN meta :
          /\ Has(dataDirs, id) /\ HasSidecar(id)
          /\ Has(meta[id], "index") /\ meta[id].index = DataPath(id, "/index.html")
          /\ StrOr(meta[id], "title") = DatFields(id).title
          /\ LogLine("Found index.dat", id, 0) \in log
          /\ LogLine("Generating metadata entry", id, 0) \notin log

-----------------------------------------------------------------------------
(* Claims about the keys of the final TOC *)

\* C20: after the repair passes every key of the final TOC other than 'root'
\* and 'hidden' is a key of the final metadata mapping
TocKeyInvariant ==
    Repaired =>
       /\ \A k \in DOMAIN toc : k \in Reserved \/ Has(meta, k)
       /\ \A k \in Range(tocKeys) : k \in Reserved \/ Has(meta, k)

\* C20 witness: a key of the input TOC without a metadata entry was removed,
\* and a key other than 'root' and 'hidden' is left in the final TOC
TocKeyWitness ==
    /\ Repaired
    /\ ErrorLine("Removed TOC entry", Dangling, 0) \in log
    /\ ~Has(toc, Dangling)
    /\ \E k \in DOMAIN toc : k \notin Reserved /\ toc[k] # <<>>

\* no key other than 'root' and 'hidden' has an empty child list, and no child
\* list holds 'root' or 'hidden'
NoEmptyKeys ==
    Repaired =>
       /\ \A k \in DOMAIN toc \ Reserved : toc[k] # <<>>
       /\ \A k \in DOMAIN toc : Range(toc[k]) \cap Reserved = {}

\* a key of the input TOC that has a metadata entry and whose children all lack
\* one is reported as removed, and is a key afterwards only with new children
EmptiedKeyRemoved ==
    RepairStep =>
       \A k \in DOMAIN toc \ Reserved :
          Has(meta', k) /\ Range(toc[k]) \cap DOMAIN meta' = {}
             => /\ ErrorLine("Removed empty TOC entry", k, 0) \in log'
                /\ Has(toc', k) => toc'[k] # <<>>

\* C21: after the repair passes every key of the final TOC other than 'root'
\* and 'hidden' has a non-empty child list; a key whose children are all
\* removed by pruning is itself removed and reported; 'root' and 'hidden'
\* appear in no child list
NoEmptyTocKeys == [](NoEmptyKeys) /\ [][EmptiedKeyRemoved]_vars

\* C21 witness (Scenario C): the only child of the key 1 had no metadata entry,
\* the reference was removed, and the key 1 was removed as empty while the
\* entry 1 survives
NoEmptyTocKeysWitness ==
    /\ Repaired
    /\ Has(meta, 1)
    /\ ~Has(toc, 1)
    /\ ErrorLine("Removed TOC reference", 1, Dangling) \in log
    /\ ErrorLine("Removed empty TOC entry", 1, 0) \in log

\* C22: every path under tree/ that was staged and has a previous file of a
\* different content is emitted with the staged content, and the content of
\* the previous file is emitted at the mirrored path under tree.bak/
BackupOnChange ==
    pc = "done" =>
       \A p \in DOMAIN staged :
          p.top = "tree" /\ Has(treeFiles, p) /\ treeFiles[p].content # staged[p] =>
             /\ Has(emitted.files, p) /\ emitted.files[p] = staged[p]
             /\ Has(emitted.files, BakPath(p))
             /\ emitted.files[BakPath(p)] = treeFiles[p].content

\* C22 witness: a generated page directly below tree/ replaced a previous page
\* of another content, and both are in the output
BackupOnChangeWitness ==
    /\ pc = "done"
    /\ \E p \in DOMAIN staged :
          /\ p.top = "tree" /\ p.sub = "" /\ p.name \in {"map.html", "frame.html"}
          /\ Has(treeFiles, p) /\ treeFiles[p].content # staged[p]
          /\ emitted.files[p] = staged[p]
          /\ emitted.files[BakPath(p)] = treeFiles[p].content

\* C23: the differencer compares, removes and backs up no file below
\* tree/favicon/: no entry below tree.bak/favicon/ is ever staged, and every
\* staged entry below tree/favicon/ is still staged after the comparisons
FaviconNotDiffed ==
    /\ \A p \in DOMAIN zip : ~(p.top = "tree.bak" /\ p.sub = "favicon")
    /\ Compared2 =>
          \A p \in DOMAIN staged : p.top = "tree" /\ p.sub = "favicon" => Has(zip, p)

\* the highest shard number of the previous files that is looked at
MaxShard == 3

\* the files of the run were generated and nothing was compared yet
Generated == pc \in {"resources", "resource", "diff"}

\* the shard `tree/${base}${i}.js` is staged as an empty file
StagedEmpty(base, i) ==
    Has(zip, ShardPath(base, i)) /\ zip[ShardPath(base, i)] = EmptyBlob

\* the shards 1..i of the base are all among the previous files
Consecutive(base, i) == \A j \in 1..i : Has(treeFiles, ShardPath(base, j))

\* C24: every previous shard tree/meta<i>.js or tree/toc<i>.js, i >= 1, is
\* staged as an empty file, whether or not the shards below it are present
SupersededShards ==
    Generated =>
       \A base \in {"meta", "toc"}, i \in 1..MaxShard :
          Has(treeFiles, ShardPath(base, i)) => StagedEmpty(base, i)

\* C24 as amended: a previous shard of number i >= 1 is staged as an empty file
\* exactly when the shards 1..i are all present; a shard above a missing
\* number is not staged
SupersededConsecutiveShards ==
    Generated =>
       \A base \in {"meta", "toc"}, i \in 1..MaxShard :
          Has(treeFiles, ShardPath(base, i)) =>
             (StagedEmpty(base, i) <=> Consecutive(base, i))

\* C24 witness: tree/toc1.js and tree/toc2.js are staged as empty files, and
\* tree/meta2.js, with no tree/meta1.js, is not staged
SupersededShardsWitness ==
    /\ Generated
    /\ StagedEmpty("toc", 1) /\ StagedEmpty("toc", 2)
    /\ treeFiles[ShardPath("toc", 2)].content # EmptyBlob
    /\ Has(treeFiles, ShardPath("meta", 2)) /\ ~Has(treeFiles, ShardPath("meta", 1))
    /\ ~Has(zip, ShardPath("meta", 2))

\* the shards `tree/${base}${i || ""}.js` that are read: those below the first
\* missing number
ReadShards(base) ==
    {i \in 0..Cardinality(DOMAIN treeFiles) :
        \A j \in 0..i : Has(treeFiles, ShardPath(base, j))}

\* the object that the shard i of the base gives, empty when it does not parse
Given(base, i) ==
    LET data == treeFiles[ShardPath(base, i)].content
    IN  IF Parses(data) THEN data.val ELSE <<>>

\* the last shard that is read and holds the key k
LastWith(base, k) ==
    CHOOSE i \in ReadShards(base) :
       /\ Has(Given(base, i), k)
       /\ \A j \in ReadShards(base) : Has(Given(base, j), k) => j <= i

\* the last shard that is read and holds the field f of the entry id
LastWithField(id, f) ==
    CHOOSE i \in ReadShards("meta") :
       /\ Has(Given("meta", i), id) /\ Has(Given("meta", i)[id], f)
       /\ \A j \in ReadShards("meta") :
             Has(Given("meta", j), id) /\ Has(Given("meta", j)[id], f) => j <= i

\* the stores are merged and no item of data/ was looked at yet
Merged == pc = "data"

\* the shards below the first missing number are read and no other; a key of a
\* shard has the list of the last shard with that key; a field of an entry of
\* a shard has the value of the last shard with that field
StoresMerged ==
    Merged =>
       /\ \A base \in {"meta", "toc"}, i \in 0..Cardinality(DOMAIN treeFiles) :
             LogLine("Importing " \o base, i, 0) \in log <=> i \in ReadShards(base)
       /\ \A i \in ReadShards("toc") : \A k \in DOMAIN Given("toc", i) :
             Has(toc, k) /\ toc[k] = Given("toc", LastWith("toc", k))[k]
       /\ \A i \in ReadShards("meta") : \A id \in DOMAIN Given("meta", i) :
             \A f \in DOMAIN Given("meta", i)[id] :
                /\ Has(meta, id) /\ Has(meta[id], f)
                /\ meta[id][f] = Given("meta", LastWithField(id, f))[id][f]

\* reading a shard leaves alone every list and every field that the shard does
\* not give
ShardFrame ==
    /\ pc = "tocShard" =>
          \A k \in DOMAIN toc \ DOMAIN Given("toc", shard) : Has(toc', k) /\ toc'[k] = toc[k]
    /\ pc = "metaShard" =>
          \A id \in DOMAIN meta :
             IF Has(Given("meta", shard), id)
             THEN \A f \in DOMAIN meta[id] \ DOMAIN Given("meta", shard)[id] :
                     Has(meta'[id], f) /\ meta'[id][f] = meta[id][f]
             ELSE Has(meta', id) /\ meta'[id] = meta[id]

\* C25: the shards toc.js, toc1.js, ... are read in this order up to the first
\* missing number; in the merged TOC the list of a key is the list of the last
\* shard with that key, which replaces the list of an earlier shard or of
\* scrapbook.rdf; metadata shards merge field by field into the entry of the
\* same id, the field of a later shard overriding
CanonicalStoreMerge == [](StoresMerged) /\ [][ShardFrame]_vars

\* C25 witness: scrapbook.rdf and tree/toc.js gave a list of root, toc1.js gave
\* another one and a list of 2 that toc3.js replaced; the title of entry 1 is
\* the one of meta3.js and its comment the one of meta1.js
CanonicalStoreMergeWitness ==
    /\ Merged
    /\ Has(otherFiles, RdfPath)
    /\ LogLine("Importing toc", 3, 0) \in log
    /\ LogLine("Importing meta", 3, 0) \in log
    /\ Has(Given("toc", 0), root) /\ Given("toc", 0)[root] # <<3>>
    /\ toc[root] = <<3>> /\ toc[2] = <<3, 1>>
    /\ Has(Given("meta", 0), 1) /\ Given("meta", 0)[1].title = "A"
    /\ meta[1].title = "Last" /\ meta[1].comment = "c1"

\* the shard that is about to be read does not parse
Unparsable(base) ==
    pc = base \o "Shard" /\ ~Parses(treeFiles[ShardPath(base, shard)].content)

\* an error naming a shard is in the log
ShardError ==
    \E base \in {"meta", "toc"}, i \in 0..MaxShard :
       ErrorLine("Error importing " \o base, i, 0) \in log

\* reading a shard that does not parse reports it, leaves both models as they
\* were, and goes on with the next shard if there is one
ShardFailure ==
    \A base \in {"meta", "toc"} :
       Unparsable(base) =>
          /\ ErrorLine("Error importing " \o base, shard, 0) \in log'
          /\ meta' = meta /\ metaKeys' = metaKeys /\ toc' = toc /\ tocKeys' = tocKeys
          /\ Has(treeFiles, ShardPath(base, shard + 1)) =>
                pc' = pc /\ shard' = shard + 1
          /\ pc' # "aborted"

\* a run that reported a shard is in no stage but those that lead to emission
GoesOn == ShardError => pc # "aborted"

\* C26: when a metadata or TOC shard cannot be parsed, an error naming the file
\* is reported, the metadata and the TOC are as they were before the shard was
\* read, the following shards are still read, and the run is not aborted but
\* goes on to emission
ShardParseFailure == [](GoesOn) /\ [][ShardFailure]_vars

\* C26 witness: tree/meta1.js and tree/toc1.js did not parse, tree/meta2.js and
\* tree/toc2.js were read after them, and the run has emitted files
ShardParseFailureWitness ==
    /\ pc = "done" /\ emitted.how # "nothing"
    /\ ErrorLine("Error importing meta", 1, 0) \in log
    /\ ErrorLine("Error importing toc", 1, 0) \in log
    /\ LogLine("Importing meta", 2, 0) \in log
    /\ LogLine("Importing toc", 2, 0) \in log
    /\ Has(meta, 1) /\ Has(meta[1], "comment") /\ meta[1].comment = "c2"

\* the favicon pass of the run has ended
FavPassed ==
    pc \in {"sweep", "generate", "resources", "resource", "diff", "diffFile", "emit",
            "finish", "done"}

\* fetching the url fails, or answers with a content type that is neither
\* image/* nor application/octet-stream
FetchFails(url) ==
    /\ url \in HttpUrls
    /\ \/ ~net[url].ok
       \/ net[url].mime \notin {"image/png", "image/x-icon", "application/octet-stream"}

\* an item whose icon could not be resolved has an empty icon and a report and
\* is still an entry; an item whose icon could be fetched has a cache url
FailedIconsCleared ==
    FavPassed =>
       \A id \in DOMAIN task :
          /\ Has(meta, id)
          /\ FetchFails(task[id].url) =>
                /\ Has(meta[id], "icon") /\ meta[id].icon = ""
                /\ ErrorLine("Removed invalid favicon", id, 0) \in log
          /\ task[id].url \in HttpUrls /\ ~FetchFails(task[id].url) =>
                /\ meta[id].icon \notin HttpUrls \cup {""}
                /\ ErrorLine("Removed invalid favicon", id, 0) \notin log

\* the favicon pass removes no entry, leaves the TOC alone and does not abort
FavKeepsItems ==
    pc = "favTasks" =>
       /\ DOMAIN meta' = DOMAIN meta /\ metaKeys' = metaKeys
       /\ toc' = toc /\ tocKeys' = tocKeys
       /\ pc' \in {"favTasks", "sweep"}

\* C27: when resolving the non-relative icon of an item fails, the icon becomes
\* the empty string, an error is reported, the item stays in the metadata and
\* the TOC, and neither the resolutions of the other items nor the rest of the
\* run are aborted
FaviconFailure == [](FailedIconsCleared) /\ [][FavKeepsItems]_vars

\* C27 witness: the icon of one item could not be resolved and the icon of
\* another item was cached in the same run, which emitted files; the first
\* item is still a child of root
FaviconFailureWitness ==
    /\ pc = "done" /\ emitted.how # "nothing"
    /\ \E id \in DOMAIN task, other \in DOMAIN task :
          /\ FetchFails(task[id].url) /\ meta[id].icon = ""
          /\ ErrorLine("Removed invalid favicon", id, 0) \in log
          /\ Has(toc, root) /\ id \in Range(toc[root])
          /\ task[other].url \in HttpUrls /\ ~FetchFails(task[other].url)
          /\ Has(meta[other], "icon") /\ meta[other].icon \notin HttpUrls \cup {""}

\* the sweep of the favicon cache has run and nothing else was staged since
Swept == pc = "generate"

\* the icon of some entry is a relative url of the cached file of that name
Referenced(name) ==
    \E id \in DOMAIN meta, deep \in BOOLEAN :
       Has(meta[id], "icon") /\ meta[id].icon = CacheUrl(deep, name)

\* the previous files below tree/favicon/
Cached == {p \in DOMAIN treeFiles : p.top = "tree" /\ p.sub = "favicon"}

\* the path is staged as an empty file
Placeholder(p) == Has(zip, p) /\ zip[p] = EmptyBlob

\* C28: after the favicon pass every previous file below tree/favicon/ that the
\* icon of no entry refers to is staged as an empty file and reported, no
\* previous file that the icon of some entry refers to is staged as an empty
\* file, and every icon that refers to a cache file which is neither a previous
\* file nor staged is reported as missing
FaviconSweep ==
    Swept =>
       /\ \A p \in Cached :
             IF Referenced(p.name)
             THEN /\ ~Placeholder(p)
                  /\ ErrorLine("Unused favicon", 0, p.name) \notin log
             ELSE /\ Placeholder(p)
                  /\ ErrorLine("Unused favicon", 0, p.name) \in log
       /\ \A id \in DOMAIN meta, n \in FavNames, deep \in BOOLEAN :
             /\ Has(meta[id], "icon") /\ meta[id].icon = CacheUrl(deep, n)
             /\ ~Has(treeFiles, TreePath("favicon", n))
             /\ ~Has(zip, TreePath("favicon", n))
             => ErrorLine("Missing favicon", id, 0) \in log

\* C28 witness: of the previous cache files one is unused and staged as an
\* empty file, another one is referenced and staged with the fetched image, and
\* an icon that refers to a file that is nowhere is reported
FaviconSweepWitness ==
    /\ Swept
    /\ \E p \in Cached, q \in Cached :
          /\ ~Referenced(p.name) /\ Placeholder(p) /\ treeFiles[p].content # EmptyBlob
          /\ Referenced(q.name) /\ ~Placeholder(q)
    /\ \E id \in DOMAIN meta :
          /\ ErrorLine("Missing favicon", id, 0) \in log
          /\ Has(meta[id], "icon") /\ meta[id].icon = CacheUrl(TRUE, "old.png")
          /\ ~Has(treeFiles, TreePath("favicon", "old.png"))

\* the entries that a generated tree/meta.js of the files z serializes
Serialized(z) ==
    IF Has(z, ShardPath("meta", 0)) /\ Has(z[ShardPath("meta", 0)], "wrap")
    THEN z[ShardPath("meta", 0)].val ELSE <<>>

\* C29: no entry serialized into tree/meta.js has an id, a folder or an exported
\* field, whatever the entry came from
TransientStripped ==
    \A z \in {zip, staged, emitted.files} :
       \A id \in DOMAIN Serialized(z) :
          DOMAIN Serialized(z)[id] \cap {"id", "folder", "exported"} = {}

\* C29 witness: tree/meta.js is staged with the entry 1 of scrapbook.rdf and an
\* index.dat, which both give an id, the entry 2 of a shard with an id and an
\* exported hint, the entry 3 of a document with a folder hint, and a
\* synthesized folder
TransientStrippedWitness ==
    /\ pc = "diff"
    /\ Has(files, RdfPath)
    /\ Has(files, Path("data", "", 1, "/index.dat"))
    /\ Has(files, ShardPath("meta", 1))
    /\ Has(files[ShardPath("meta", 1)].content.val[2], "exported")
    /\ Has(files[Path("data", "", 3, "/index.html")].content.attrs, "folder")
    /\ {1, 2, 3} \subseteq DOMAIN Serialized(zip)
    /\ \E id \in DOMAIN Serialized(zip) :
          id \notin {1, 2, 3} /\ Serialized(zip)[id].type = "folder"

\* the position of the first occurrence of id in the list s, 0 for none
Position(s, id) ==
    IF id \in Range(s) THEN Min({i \in 1..Len(s) : s[i] = id}) ELSE 0

\* the pair (exported hint, id) of the insertion e is below that of f
PairBelow(e, f) ==
    e.exported < f.exported \/ (e.exported = f.exported /\ e.id < f.id)

\* the insertions of orphans without a folder hint
Plain == {i \in 1..Len(trace) : trace[i].hint = <<>>}

\* the insertions happen in ascending order of the pair, and the orphans
\* without a folder hint are children of root in that order
InsertionOrder ==
    Repaired =>
       /\ \A i, j \in 1..Len(trace) : i < j => PairBelow(trace[i], trace[j])
       /\ \A i, j \in Plain :
             i < j => /\ Position(toc[root], trace[i].id) > 0
                      /\ Position(toc[root], trace[i].id) < Position(toc[root], trace[j].id)

\* the orphans without a folder hint come after every child that root had
\* before the insertion
AfterOldChildren ==
    RepairStep /\ Has(toc, root) =>
       \A p, q \in 1..Len(toc'[root]) :
          /\ toc'[root][p] \in {trace'[i].id : i \in {k \in 1..Len(trace') : trace'[k].hint = <<>>}}
          /\ toc'[root][q] \in Range(toc[root])
          => q < p

\* C30: orphans are inserted in ascending order of the pair (exported hint,
\* id), by the hint first and by the id for equal hints; the orphans without a
\* folder hint are children of root in that order, after all the children that
\* root already had
OrphanInsertionOrder == [](InsertionOrder) /\ [][AfterOldChildren]_vars

\* C30 witness: root had the child 3; the orphan 2 without an exported hint was
\* appended before the orphan 1 with one
OrphanInsertionOrderWitness ==
    /\ Repaired
    /\ Len(trace) = 2
    /\ trace[1].id = 2 /\ trace[1].exported = 0 /\ trace[1].hint = <<>>
    /\ trace[2].id = 1 /\ trace[2].exported > 0 /\ trace[2].hint = <<>>
    /\ toc[root] = <<3, 2, 1>>

\* the path segments of the folder hint of the insertion e
Segments(e) == SplitFolder(e.hint)

\* the folders of the title t that the insertion e synthesized
CreatedTitled(e, t) == {c \in Range(e.created) : Has(meta, c) /\ meta[c].title = t}

\* C31: when the parent already has a child whose title is the path segment,
\* that child is the next parent and no folder is synthesized for the segment,
\* also when another entry of that title is elsewhere in the tree; so orphans
\* of one folder hint end up under one folder, and at most one folder is
\* synthesized per folder path
FolderReuse ==
    Repaired =>
       /\ \A i \in 1..Len(trace) :
             trace[i].hint # <<>> /\ Segments(trace[i])[1] \in trace[i].rootTitles =>
                CreatedTitled(trace[i], Segments(trace[i])[1]) = {}
       /\ \A i, j \in 1..Len(trace) :
             i < j /\ trace[i].hint # <<>> /\ trace[i].hint = trace[j].hint =>
                trace[i].parent = trace[j].parent /\ trace[j].created = <<>>

\* the ids that the insertion of an orphan with a folder hint went below: the
\* parent of the orphan and the folders synthesized on the way
Parents == {trace[i].parent : i \in {k \in 1..Len(trace) : trace[k].hint # <<>>}}
              \cup UNION {Range(trace[i].created) : i \in 1..Len(trace)}

\* C32: every entry that a path segment of a folder hint resolves to, and so
\* every key other than 'root' that insertToToc creates or appends to, has the
\* type 'folder'
ParentsAreFolders ==
    Repaired =>
       \A p \in Parents : Has(meta, p) /\ Has(meta[p], "type") /\ meta[p].type = "folder"

\* the result that the collaborator gives for the icon source url: the name
\* and the bytes of the file, NoFile for a failure
Resolved(url) ==
    IF url \in DataUris THEN dataUriToFile(url)
    ELSE IF FetchFails(url) THEN NoFile
    ELSE [name |-> sha1(net[url].bytes)
                   \o (IF url = "http://h/a.png" THEN ".png"
                       ELSE IF net[url].mime = "image/png" THEN ".png"
                       ELSE IF net[url].mime = "image/x-icon" THEN ".ico" ELSE ""),
          bytes |-> net[url].bytes]

\* the icon that the task of an item ends with, by the source and the depth
\* of the index that it read
FinalIcon(t) ==
    IF t.url = "" THEN t.out
    ELSE IF Resolved(t.url) = NoFile THEN ""
    ELSE (IF t.deep THEN "../../tree/favicon/" ELSE "../tree/favicon/") \o Resolved(t.url).name

\* the cache files that the pass stages: the results of the sources of the
\* items that have no previous file, or an empty one
FaviconsToStage ==
    {Resolved(task[id].url) : id \in {i \in DOMAIN task : task[i].url # ""}}
       \ {NoFile}

\* all tasks have ended and nothing but favicons is staged
AllTasksDone == pc = "sweep"

\* C33: for a fixed input and fixed results of the fetches and decodes, the
\* icon of every item, the staged favicon paths and their contents are the
\* same whatever the order in which the callbacks of the tasks ran
FaviconOrderIndependence ==
    AllTasksDone =>
       /\ \A id \in DOMAIN task : Has(meta[id], "icon") /\ meta[id].icon = FinalIcon(task[id])
       /\ \A f \in FaviconsToStage :
             LET p == TreePath("favicon", f.name)
             IN  IF Has(treeFiles, p) /\ treeFiles[p].content # EmptyBlob
                 THEN ~Has(zip, p)
                 ELSE Has(zip, p) /\ zip[p] = Blob(f.bytes)
       /\ \A p \in DOMAIN zip :
             \E f \in FaviconsToStage : p = TreePath("favicon", f.name)

\* C33 witness: the tasks of two items resolved two sources, whose callbacks
\* can run in either order, and both results are staged
FaviconOrderWitness ==
    /\ AllTasksDone
    /\ Cardinality(DOMAIN task) >= 2
    /\ Cardinality({task[id].url : id \in DOMAIN task} \ {""}) = 2
    /\ Cardinality(DOMAIN zip) = 2
    /\ \A id \in DOMAIN task : meta[id].icon # ""

\* the lines that announce an emission
EmissionLines == {LogLine("Downloading files", 0, 0), LogLine("Generating zip file", 0, 0)}

\* the step of the emission stage
EmitStep ==
    pc = "emit" =>
       IF DOMAIN zip = {}
       THEN /\ UpToDate \in log'
            /\ emitted' = NotEmitted
            /\ log' \cap EmissionLines = log \cap EmissionLines
       ELSE /\ emitted'.how \in {"files", "zip"}
            /\ emitted'.files = zip
            /\ log' \cap EmissionLines # {}
            /\ UpToDate \in log' <=> UpToDate \in log

\* C34: when nothing is staged after the comparison the run logs that the
\* current files are up to date, downloads nothing and generates no zip; when
\* something is staged the run emits it
UpToDateOrEmit == [][EmitStep]_vars

\* C34 witness: a second run on the files of the first found nothing to emit
UpToDateWitness ==
    /\ pc = "done" /\ run = 2
    /\ firstRun.emitted.how # "nothing"
    /\ zip = <<>> /\ emitted = NotEmitted
    /\ UpToDate \in log
    /\ log \cap EmissionLines = {}

\* the step of the emission stage when something is staged
DownloadStep ==
    pc = "emit" /\ DOMAIN zip # {} =>
       IF options.autoDownload /\ options.folderMatches
       THEN /\ emitted' = [how |-> "files", files |-> zip]
            /\ LogLine("Generating zip file", 0, 0) \notin log' \ log
       ELSE /\ emitted' = [how |-> "zip", files |-> zip]
            /\ LogLine("Downloading files", 0, 0) \notin log' \ log

\* C35: the files are written one by one into the configured folder only when
\* the auto-download option is on and the last segment of the configured folder
\* is the validated title of the collection; in every other case no single
\* file is written and the output is one zip
DownloadGating ==
    [](emitted.how = "files" => options.autoDownload /\ options.folderMatches)
    /\ [][DownloadStep]_vars

\* C35 witness: with the option on and the folder matching, the files of the
\* run, a backup among them, were written one by one
DownloadGatingWitness ==
    /\ pc = "done"
    /\ options.autoDownload /\ options.folderMatches
    /\ emitted.how = "files"
    /\ \E p \in DOMAIN emitted.files : p.top = "tree.bak"
    /\ LogLine("Downloading files", 0, 0) \in log

\* the ids that are reached from the ids of S by following child lists
RECURSIVE ReachableFrom(_)
ReachableFrom(S) ==
    LET next == S \cup UNION {Range(toc[k]) : k \in S \cap DOMAIN toc}
    IN  IF next = S THEN S ELSE ReachableFrom(next)

\* C36: after the repair passes every surviving entry other than 'root' and
\* 'hidden' is reached from 'root' or 'hidden' by following child lists
Reachability ==
    Repaired => DOMAIN meta \ Reserved \subseteq ReachableFrom(Reserved)

\* a handler of the page is between its start() and its end()
InProgress == pc # "idle"

\* the listeners are detached exactly while a handler is in progress
DetachedWhileRunning == InProgress <=> ~host.listening

\* the listeners are detached by the step that starts a handler and by no
\* other, and attached again by the step that ends it and by no other; no
\* handler starts while one is in progress
Lifecycle ==
    /\ host.listening /\ ~host.listening' => pc = "idle" /\ pc' = "load"
    /\ ~host.listening /\ host.listening' => pc = "load" /\ pc' = "idle"
    /\ pc' = "load" /\ pc = "idle" => host.listening
    /\ host.imports' # host.imports => ~host.listening /\ ~host.listening'

\* C37: each handler detaches the listeners before it processes anything and
\* attaches them again once when it finishes, on success, on rejection of the
\* input and on an unexpected error; no second run starts while one is in
\* progress, and after every run the page accepts input again
RunLifecycle == [](DetachedWhileRunning) /\ [][Lifecycle]_vars

\* C37 witness: a handler has ended and the page listens again after it
\* rejected one input and imported another one
RunLifecycleWitness ==
    /\ pc = "idle" /\ host.listening
    /\ host.imports >= 1
    /\ LogLine("Done", 0, 0) \in log
    /\ \E l \in log : l.sev = "error" /\ l.msg \in {"Skipped invalid zip file",
                                                     "Skipped invalid zip of ScrapBook folder",
                                                     "Skipped invalid ScrapBook folder"}

\* the items whose icon source is url
Referencing(url) == {id \in DOMAIN task : task[id].url = url}

\* C38: when the resolution of an icon source fails, no second fetch or decode
\* of that source starts in the run, and every item with that source ends with
\* an empty icon and an error of its own
FailureMemoized ==
    /\ \A url \in DOMAIN started : FetchFails(url) => started[url] = 1
    /\ FavPassed =>
          \A url \in HttpUrls :
             FetchFails(url) /\ Referencing(url) # {} =>
                /\ Has(started, url) /\ started[url] = 1
                /\ \A id \in Referencing(url) :
                      /\ meta[id].icon = ""
                      /\ ErrorLine("Removed invalid favicon", id, 0) \in log

\* C38 witness: two items had one source whose fetch failed; it was fetched
\* once, and both icons are empty, each with its error
FailureMemoizedWitness ==
    /\ FavPassed
    /\ \E url \in HttpUrls :
          /\ FetchFails(url)
          /\ Cardinality(Referencing(url)) = 2
          /\ started[url] = 1
          /\ \A id \in Referencing(url) :
                meta[id].icon = "" /\ ErrorLine("Removed invalid favicon", id, 0) \in log

\* the folders that the insertions up to the i-th have generated
CreatedUpTo(i) == UNION {Range(trace[j].created) : j \in 1..i}

\* C39: getUniqueId(id, metas) returns an id that is no key of metas, and id
\* itself when id is free; a generated folder gets an id that no entry and no
\* other generated folder has, also when the clock stands still, and no entry
\* that was there is overwritten or lost
FreshIdentifiers ==
    /\ \A t \in 0..MaxClock :
          /\ ~Has(meta, getUniqueId(t, meta))
          /\ ~Has(meta, t) => getUniqueId(t, meta) = t
    /\ \A i \in 1..Len(trace) :
          LET e == trace[i]
          IN  /\ Range(e.created) \cap e.metas = {}
              /\ Range(e.created) \cap CreatedUpTo(i - 1) = {}
              /\ CreatedUpTo(i - 1) \subseteq e.metas
              /\ Cardinality(Range(e.created)) = Len(e.created)
              /\ e.metas \cup Range(e.created) \subseteq DOMAIN meta
              /\ \A c \in Range(e.created) :
                    /\ meta[c].type = "folder" /\ meta[c].create = c
                    /\ LogLine("Generated folder", c, 0) \in log
              /\ \A id \in e.metas \ CreatedUpTo(i - 1) :
                    LogLine("Generated folder", id, 0) \notin log

\* C39 witness: the clock stood still while two insertions generated folders,
\* three in all, and the ids are three
FreshIdentifiersWitness ==
    /\ Repaired
    /\ clock = 10
    /\ \E i, j \in 1..Len(trace) :
          /\ i < j
          /\ trace[i].created # <<>> /\ trace[j].created # <<>>
    /\ Cardinality(CreatedUpTo(Len(trace))) >= 3

====
